---- MODULE Spec2Model ----
(***************************************************************************)
(* Model of the X-Plane REST/WebSocket connector of cockpitdecks_xp        *)
(* (src/cockpitdecks_xp/simulators/xplane.py): the request counter of      *)
(* XPlaneWebSocket.send, the reference-counted dataref subscriptions of    *)
(* XPlane.add/remove_simulator_variables_to_monitor, the array index       *)
(* bookkeeping of DatarefMeta, the frame dispatcher XPlane.ws_receiver     *)
(* and the connection monitor XPlaneWebSocket.connect_loop / XPlane.start. *)
(***************************************************************************)
EXTENDS Integers, Sequences, FiniteSets, TLC

\* ------------------------------------------------------------------------
\* Bounds of the model
\* ------------------------------------------------------------------------
MaxLen == 2        \* length of the array dataref "a" in the simulator
MaxCount == 2      \* cap on Dataref._monitored
MaxReq == 3        \* cap on req_number (messages sent in one behaviour)
MaxCalls == 3      \* cap on the counted add / remove calls for dataref "s"

\* ------------------------------------------------------------------------
\* Python values
\* ------------------------------------------------------------------------
None == -1         \* Dataref.index of a dataref that is no array element
NoIdent == 0       \* Dataref.ident of a dataref without meta data (None)

Indices == 0 .. (MaxLen - 1)
Ids == {1, 2}
BaseNames == {"s", "a"}

\* DatarefMeta.value_type as the REST API reports it for each name
ValueType(n) == IF n = "a" THEN "float_array" ELSE "float"

\* Dataref.__init__: a name "path[index]" is split into path and index
Dataref(path, index) == [path |-> path, index |-> index]

S == Dataref("s", None)
A == Dataref("a", None)
Variables == {S, A} \cup {Dataref("a", i) : i \in Indices}

\* A JSON value of a frame: a number (list = FALSE, v = <<x>>), a list of
\* numbers (list = TRUE) or Python's None (list = FALSE, v = <<>>).
Vals == {100, 104, 110}                 \* numbers, in hundredths
Number(x) == [list |-> FALSE, v |-> <<x>>]
NoneValue == [list |-> FALSE, v |-> <<>>]
RECURSIVE SeqsOf(_, _)
SeqsOf(set, n) ==
    IF n = 0 THEN {<<>>}
    ELSE {Append(q, x) : q \in SeqsOf(set, n - 1), x \in set}
\* The arrays the simulator pushes: one of each length, the k-th value being
\* 1.00 + k / 10, so that the values tell the positions apart
Arrays == {[list |-> TRUE, v |-> [k \in 1 .. n |-> 100 + 10 * k]] : n \in 1 .. MaxLen}
Scalars == {Number(x) : x \in Vals}

\* An entry of XPlane._dataref_by_id, or of the local dict "datarefs" of the
\* add / remove handlers: a Dataref (list = FALSE, drefs = <<d>>) or a Python
\* list of Datarefs (list = TRUE); NoEntry is a key that is not in the dict.
NoEntry == [list |-> FALSE, drefs |-> <<>>]
One(d) == [list |-> FALSE, drefs |-> <<d>>]
Many(ds) == [list |-> TRUE, drefs |-> ds]

\* The command names the application uses; the simulator knows "c" and "k"
\* (CommandMeta.ident 1 and 2), "x" is no command of the simulator
CommandNames == {"c", "k", "x"}
CommandIds == {1, 2, 3}
SimCommands == [n \in CommandNames |-> IF n = "c" THEN 1 ELSE IF n = "k" THEN 2 ELSE NoIdent]
EmptyCommands == [n \in CommandNames |-> NoIdent]

\* A payload of send(): Python's None, a dict without keys, or a message with
\* its type and the command it is about; req_id is set by send()
NonePayload == [none |-> TRUE, keys |-> 0, type |-> "", ident |-> NoIdent,
                is_active |-> FALSE, duration |-> None, req_id |-> 0]
EmptyPayload == [NonePayload EXCEPT !.none = FALSE]
Payload(type, id, active, duration) ==
    [none |-> FALSE, keys |-> 2, type |-> type, ident |-> id,
     is_active |-> active, duration |-> duration, req_id |-> 0]
NoReturn == 0      \* no call of send() has returned yet

\* A frame of the WebSocket: json is FALSE for a text json.loads rejects, type
\* is "" when the object has no "type" key; req_id (None when absent),
\* success ("true", "false", "missing") and errtext (error_message and
\* error_code are there) are the keys of a result frame; hasdata tells
\* whether there is a "data" key and data lists its (identifier, value) pairs
Message(json, type, req_id, success, errtext, hasdata, data) ==
    [json |-> json, type |-> type, req_id |-> req_id, success |-> success,
     errtext |-> errtext, hasdata |-> hasdata, data |-> data]
NoMessage == Message(FALSE, "", None, "missing", FALSE, FALSE, <<>>)

\* No RREF message sent yet, and the message of add_dataref_to_monitor
NoRREF == [freq |-> -1, idx |-> -1, path |-> 0]
RREF(freq, idx, path) == [freq |-> freq, idx |-> idx, path |-> path]

\* XPlaneBeacon.beacon_data: {} or the endpoint a beacon packet announced
NoBeacon == [IP |-> "", XPlaneVersion |-> 0]
BeaconData(ip, version) == [IP |-> ip, XPlaneVersion |-> version]

\* What sock.recvfrom gives FindIp: a socket timeout, or a packet from ip
\* with its header (the bytes BECN\0 or not) and the fields of becn_struct
Packet(timeout, header, major, minor, app, version, ip) ==
    [timeout |-> timeout, header |-> header, beacon_major_version |-> major,
     beacon_minor_version |-> minor, application_host_id |-> app,
     xplane_version_number |-> version, ip |-> ip]
Timeout == Packet(TRUE, FALSE, 0, 0, 0, 0, "")

\* The threads that call send(): the connection monitor (in start()) and
\* the application (a command, a subscription)
Threads == {"monitor", "app"}

\* The listener threads that can be alive together in a run
MaxListeners == 2
Listeners == 1 .. MaxListeners
NoListener == [l \in Listeners |-> "off"]
OneListener == [l \in Listeners |-> IF l = 1 THEN "recv" ELSE "off"]

\* connect_loop, line 1314
MAX_TIMEOUT_COUNT == 5

VARIABLES
    sim,                \* the ids the running simulator gives the names
    ws,                 \* XPlaneWebSocket.ws is not None
    ws_event,           \* XPlane.ws_event.is_set(): the listener is off
    req_number,         \* XPlaneWebSocket.req_number
    _requests,          \* XPlaneWebSocket._requests: req_id -> outcome
    all_datarefs,       \* Cache._by_name of XPlaneREST.all_datarefs: name -> id
    _last_updated,      \* XPlaneREST._last_updated
    indices,            \* DatarefMeta.indices of each name of the cache
    indices_history,    \* DatarefMeta.indices_history, cut to its last entry
    _monitored,         \* Dataref._monitored of each variable
    simulator_variable_to_monitor,  \* Simulator.simulator_variable_to_monitor
    _dataref_by_id,     \* XPlane._dataref_by_id
    wire,               \* last subscription message sent for each id on this socket
    events,             \* DatarefEvents enqueued for the last frame received
    last_op,            \* the last handler that ran and whether it raised
    hist,               \* counted calls and messages for dataref "s"
    pc, local,          \* threads inside send(): position, value held
    returned,           \* the ids send() returns, in the order next_req gave them
    all_commands,       \* Cache._by_name of XPlaneREST.all_commands: name -> id
    sent,               \* last payload an application call of send() put on the socket
    ret,                \* what the last application call of send() returned
    received,           \* the last frame the listener took from the socket (history)
    should_not_connect, \* XPlaneWebSocket.should_not_connect: "None", "clear", "set"
    connect_thread,     \* the connection monitor thread is alive
    ws_thread,          \* a WebSocket listener thread is alive
    beacon_data,        \* XPlaneBeacon.beacon_data
    beacon_calls,       \* arguments of the callbacks of the last beacon loop turn
    packet,             \* what the last recvfrom of FindIp gave (history)
    beacon_event,       \* XPlaneBeacon.should_not_connect: "None", "clear", "set"
    beacon_thread,      \* the beacon thread is alive
    term,               \* position of the thread that calls terminate()
    number_of_timeouts, \* the local number_of_timeouts of connect_loop
    lpc,                \* position of each WebSocket listener thread in ws_receiver
    held,               \* the frame each listener took from the socket and is decoding
    arrived,            \* frames taken from the socket so far, in arrival order
    emitted,            \* the frames whose events were enqueued, in that order (history)
    cmdevents,          \* XPlane.cmdevents: the commands monitored
    uptime,             \* sim/time/total_flight_time_sec in the simulator
    elapsed,            \* simulator seconds since the last reload of the cache (history)
    status,             \* the internal variable INTDREF_CONNECTION_STATUS
    host,               \* XPlaneREST.host
    port,               \* XPlaneREST.port
    _api_version,       \* XPlaneREST._api_version
    is_on,              \* BeginEndCommand.is_on of the command "c"
    datarefs,           \* XPlaneUDP.datarefs: index -> path
    datarefidx,         \* XPlaneUDP.datarefidx
    message,            \* the last RREF message XPlaneUDP put on its socket
    _by_name,           \* Cache._by_name of a Cache loaded from a list of records
    _by_ids,            \* Cache._by_ids of that Cache
    _raw                \* Cache._raw of that Cache: the records of the answer

vars == <<sim, ws, ws_event, req_number, _requests, all_datarefs, _last_updated,
          indices, indices_history, _monitored, simulator_variable_to_monitor,
          _dataref_by_id, wire, events, last_op, hist, pc, local, returned,
          all_commands, sent, ret, received, should_not_connect, connect_thread, ws_thread,
          beacon_data, beacon_calls, packet, beacon_event, beacon_thread, term,
          number_of_timeouts, lpc, held, arrived, emitted, cmdevents, uptime, elapsed,
          status, host, port, _api_version, is_on, datarefs, datarefidx, message,
          _by_name, _by_ids,
          _raw>>

\* The state of the application's requests, of the beacon and of the threads
request_vars == <<sent, ret, received>>
beacon_vars == <<beacon_data, beacon_calls, packet, beacon_event, beacon_thread>>
thread_vars == <<should_not_connect, connect_thread, ws_thread, term>>
frame_vars == <<held, arrived, emitted>>
clock_vars == <<uptime, elapsed>>
endpoint_vars == <<host, port, _api_version>>
udp_vars == <<datarefs, datarefidx, message>>
cache_vars == <<_by_name, _by_ids, _raw>>
late_vars == <<endpoint_vars, udp_vars, cache_vars, is_on>>
more_vars == <<number_of_timeouts, lpc, cmdevents, frame_vars, clock_vars, late_vars>>

\* ------------------------------------------------------------------------
\* Cache, DatarefMeta, Dataref
\* ------------------------------------------------------------------------
\* Cache.has_data
has_data == \E n \in BaseNames : all_datarefs[n] # NoIdent

\* Cache.get_by_id: the name of the meta with that id, "" when there is none
get_by_id(id) ==
    IF \E n \in BaseNames : all_datarefs[n] = id /\ id # NoIdent
    THEN CHOOSE n \in BaseNames : all_datarefs[n] = id
    ELSE ""

\* Dataref.valid: all_datarefs.get(self.path) is not None
valid(d) == all_datarefs[d.path] # NoIdent

\* Dataref.ident
ident(d) == all_datarefs[d.path]

\* Dataref.is_array
is_array(d) == valid(d) /\ ValueType(d.path) \in {"int_array", "float_array"}

\* A Dataref that reports itself monitored whatever its count
is_monitored_always(m, d) == m[d] >= 0

\* Dataref.is_monitored
is_monitored(m, d) == m[d] > 0

\* Dataref.monitor
monitor(m, d) == [m EXCEPT ![d] = @ + 1]

\* An unmonitor that forgets every consumer at once
unmonitor_all(m, d) == [m EXCEPT ![d] = 0]

\* Dataref.unmonitor: the count after the call
unmonitor(m, d) == IF m[d] > 0 THEN [m EXCEPT ![d] = @ - 1] ELSE m

\* DatarefMeta.last_indices
last_indices(n) ==
    IF Len(indices_history[n]) > 0
    THEN indices_history[n][Len(indices_history[n])]
    ELSE <<>>

InSeq(x, q) == \E k \in 1 .. Len(q) : q[k] = x

\* DatarefMeta.append_index
append_index(q, i) == IF InSeq(i, q) THEN q ELSE Append(q, i)

\* DatarefMeta.remove_index
remove_index(q, i) == SelectSeq(q, LAMBDA x : x # i)

\* ------------------------------------------------------------------------
\* XPlaneWebSocket.send and the subscription messages
\* ------------------------------------------------------------------------
\* A send() that hands out the next id whether connected or not
send_id_always(connected, req) == req + 1

\* The effect of one whole call of send(payload) with a non-empty payload on
\* (req_number, _requests), and the id it returns (-1: not connected).
send_id(connected, req) == IF connected THEN req + 1 ELSE -1

send_requests(connected, req, table) ==
    IF connected THEN [table EXCEPT ![req + 1] = "pending"] ELSE table

\* What the simulator has last been asked for each id listed in a message
send_wire(connected, w, kind, ids) ==
    IF connected THEN [i \in Ids |-> IF InSeq(i, ids) THEN kind ELSE w[i]] ELSE w

\* The local dict "datarefs" of the add and remove handlers: ident -> Dataref
\* or list of Datarefs, with the keys in insertion order.
EmptyDict == [order |-> <<>>, at |-> [i \in Ids |-> NoEntry], raised |-> FALSE]

\* xplane.py 1893-1898 and 1942-1947: file d under its ident. An indexed array
\* element is appended to the list of its ident, which raises AttributeError
\* when the ident already holds a Dataref that is no list; anything else
\* replaces what the ident holds.
Put(dr, d) ==
    LET id == ident(d) IN
    IF is_array(d) /\ d.index # None
    THEN IF dr.at[id] = NoEntry
         THEN [dr EXCEPT !.order = Append(@, id), !.at[id] = Many(<<d>>)]
         ELSE IF dr.at[id].list
              THEN [dr EXCEPT !.at[id] = Many(Append(@.drefs, d))]
              ELSE [dr EXCEPT !.raised = TRUE]
    ELSE [dr EXCEPT !.order = IF dr.at[id] = NoEntry THEN Append(@, id) ELSE @,
                    !.at[id] = One(d)]

\* One iteration of the loop of add_simulator_variables_to_monitor
AddStep(acc, d) ==
    IF acc.dr.raised THEN acc
    ELSE LET dr == IF ~is_monitored(acc.mon, d) /\ ident(d) # NoIdent
                   THEN Put(acc.dr, d) ELSE acc.dr
         IN  IF dr.raised THEN [acc EXCEPT !.dr = dr]
             ELSE [dr |-> dr, mon |-> monitor(acc.mon, d), eff |-> Append(acc.eff, d)]

\* One iteration of the loop of remove_simulator_variables_to_monitor
RemoveStep(acc, d) ==
    IF acc.dr.raised THEN acc
    ELSE IF is_monitored(acc.mon, d)
         THEN LET mon == unmonitor(acc.mon, d)
                  dr == IF ~(mon[d] > 0) /\ ident(d) # NoIdent
                        THEN Put(acc.dr, d) ELSE acc.dr
              IN  [dr |-> dr, mon |-> mon, eff |-> Append(acc.eff, d)]
         ELSE acc

RECURSIVE Collect(_, _, _, _)
Collect(on, vs, k, acc) ==
    IF k > Len(vs) THEN acc
    ELSE Collect(on, vs, k + 1,
                 IF on THEN AddStep(acc, vs[k]) ELSE RemoveStep(acc, vs[k]))

\* Simulator.add/remove_simulator_variables_to_monitor of the base class: the
\* per-name counts of simulator_variable_to_monitor
RECURSIVE base_count(_, _, _, _)
base_count(stm, eff, k, delta) ==
    IF k > Len(eff) THEN stm
    ELSE base_count([stm EXCEPT ![eff[k]] = IF @ + delta < 0 THEN 0 ELSE @ + delta],
                    eff, k + 1, delta)

\* register_bulk_dataref_value_event, the index bookkeeping of one list
\* entry: indices after the append_index / remove_index of each element
RECURSIVE apply_indices(_, _, _, _)
apply_indices(on, q, ds, k) ==
    IF k > Len(ds) THEN q
    ELSE apply_indices(on,
                       IF on THEN append_index(q, ds[k].index)
                       ELSE remove_index(q, ds[k].index),
                       ds, k + 1)

\* register_bulk_dataref_value_event, the loop over datarefs.values(): the
\* metas' indices and snapshots, and the "datarefs" list of the message
RECURSIVE register_loop(_, _, _, _)
register_loop(on, dr, k, st) ==
    IF k > Len(dr.order) THEN st
    ELSE LET id == dr.order[k]
             e == dr.at[id]
             n == get_by_id(ident(e.drefs[1]))
         IN  IF e.list
             THEN IF n = "" THEN register_loop(on, dr, k + 1, st)
                  ELSE register_loop(on, dr, k + 1,
                         [ind |-> [st.ind EXCEPT ![n] = apply_indices(on, @, e.drefs, 1)],
                          his |-> [st.his EXCEPT ![n] = <<st.ind[n]>>],
                          drefs |-> Append(st.drefs,
                                      [id |-> ident(e.drefs[1]),
                                       index |-> [j \in 1 .. Len(e.drefs) |-> e.drefs[j].index]])])
             ELSE register_loop(on, dr, k + 1,
                         [st EXCEPT !.drefs = Append(@, [id |-> ident(e.drefs[1]), index |-> <<>>])])

register_bulk(on, dr) ==
    register_loop(on, dr, 1, [ind |-> indices, his |-> indices_history, drefs |-> <<>>])

MessageIds(drefs) == [k \in 1 .. Len(drefs) |-> drefs[k].id]

\* self._dataref_by_id | datarefs
dict_union(table, dr) == [i \in Ids |-> IF dr.at[i] # NoEntry THEN dr.at[i] ELSE table[i]]

\* del self._dataref_by_id[i] for each key of datarefs
dict_delete(table, dr) == [i \in Ids |-> IF dr.at[i] # NoEntry THEN NoEntry ELSE table[i]]

\* ------------------------------------------------------------------------
\* XPlane.ws_receiver: decoding of one dataref_update_values frame
\* ------------------------------------------------------------------------
\* DatarefEvent(sim, dataref, value, cascade)
DatarefEvent(d, value) ==
    [dataref |-> d, value |-> value, cascade |-> simulator_variable_to_monitor[d] > 0]

Position(x, q) == CHOOSE k \in 1 .. Len(q) : q[k] = x

\* Dataref.parse_raw_value; exc: the call raises (the NameError of line 304,
\* the ValueError of list.index at line 317)
parse_raw_value(d, raw) ==
    IF ~valid(d) THEN [exc |-> FALSE, val |-> NoneValue]
    ELSE IF ValueType(d.path) \in {"int_array", "float_array"}
    THEN IF ~raw.list THEN [exc |-> TRUE, val |-> NoneValue]
         ELSE IF Len(indices[d.path]) = 0 THEN [exc |-> FALSE, val |-> raw]
         ELSE IF Len(raw.v) # Len(indices[d.path]) THEN [exc |-> FALSE, val |-> NoneValue]
         ELSE IF ~InSeq(d.index, indices[d.path]) THEN [exc |-> TRUE, val |-> NoneValue]
         ELSE [exc |-> FALSE, val |-> Number(raw.v[Position(d.index, indices[d.path])])]
    ELSE [exc |-> FALSE, val |-> raw]

\* A pair that raises where the listener only skips it
SkipRaises == [exc |-> TRUE, ev |-> <<>>]

\* xplane.py 2232-2236: the pair is skipped (continue)
NoEvents == [exc |-> FALSE, ev |-> <<>>]

\* Simulator.get_rounding for the scalar dataref: one decimal; numbers are in
\* hundredths, so round(x, 1) is the nearest multiple of 10
round(x) == ((x + 5) \div 10) * 10

\* ws_receiver.dref_round (defined by the listener, called nowhere)
dref_round(x) == LET local_v == round(x) IN IF local_v < 0 /\ 10 * local_v > -1 THEN 0 ELSE local_v

\* xplane.py 2238-2270: values of some elements of an array
dispatch_list(e, value) ==
    LET d0 == e.drefs[1] IN
    IF ~value.list \/ ~valid(d0) THEN NoEvents
    ELSE LET cur == indices[d0.path]
             last == last_indices(d0.path)
             use == IF Len(value.v) = Len(cur) THEN cur ELSE last
         IN  IF Len(value.v) # Len(cur) /\ Len(value.v) # Len(last) THEN NoEvents
             ELSE [exc |-> FALSE,
                   ev |-> [k \in 1 .. Len(use) |->
                             DatarefEvent(Dataref(d0.path, use[k]), Number(value.v[k]))]]

\* xplane.py 2278-2286: a scalar value (or a whole array)
dispatch_scalar(e, value) ==
    LET p == parse_raw_value(e.drefs[1], value) IN
    IF p.exc THEN [exc |-> TRUE, ev |-> <<>>]
    ELSE [exc |-> FALSE, ev |-> <<DatarefEvent(e.drefs[1], p.val)>>]

\* xplane.py 2229-2286: one (ident, value) pair of the frame
dispatch_pair(id, value) ==
    LET e == _dataref_by_id[id] IN
    IF e = NoEntry THEN NoEvents
    ELSE IF e.list THEN dispatch_list(e, value)
    ELSE dispatch_scalar(e, value)

\* The loop over the pairs of the frame; an exception ends the frame (the
\* except clause of line 2292) and keeps the events already enqueued.
RECURSIVE dispatch_frame(_, _, _)
dispatch_frame(frame, k, ev) ==
    IF k > Len(frame) THEN [exc |-> FALSE, ev |-> ev]
    ELSE LET r == dispatch_pair(frame[k].id, frame[k].value) IN
         IF r.exc THEN [exc |-> TRUE, ev |-> ev]
         ELSE dispatch_frame(frame, k + 1, ev \o r.ev)

\* A lookup that takes every identifier for that of the command "c"
get_command_meta_by_id_any(id) == "c"

\* XPlaneREST.get_command_meta_by_id: the name of the command, "" for None
get_command_meta_by_id(id) ==
    IF id # NoIdent /\ \E n \in CommandNames : all_commands[n] = id
    THEN CHOOSE n \in CommandNames : all_commands[n] = id
    ELSE ""

\* CommandActiveEvent(sim, command, is_active, cascade=True)
CommandActiveEvent(command, is_active) ==
    [command |-> command, is_active |-> is_active, cascade |-> TRUE]

\* xplane.py 2212-2219: the pairs of a command_update_is_active frame
RECURSIVE dispatch_commands(_, _, _)
dispatch_commands(data, k, ev) ==
    IF k > Len(data) THEN ev
    ELSE LET name == get_command_meta_by_id(data[k].id) IN
         dispatch_commands(data, k + 1,
                           IF name # "" THEN Append(ev, CommandActiveEvent(name, data[k].value))
                           ELSE ev)

\* A decoder that takes any text for a frame of the type it seems to have
decode_never_raises(m) == FALSE

\* xplane.py 2181-2182: json.loads(message) raises for a text that is no
\* JSON, data["type"] raises KeyError for an object without type
decode_raises(m) == ~m.json \/ m.type = ""

\* xplane.py 2189-2202, a result frame: the outcome goes in _requests under
\* the req_id of the frame; data["success"] raises KeyError when it is
\* missing, and the warning of a failure raises TypeError without its texts
result_requests(m, table) ==
    IF m.req_id # None /\ m.success # "missing"
    THEN [table EXCEPT ![m.req_id] = IF m.success = "true" THEN "success" ELSE "failure"]
    ELSE table

result_raises(m) == m.success = "missing" \/ (m.success = "false" /\ ~m.errtext)

\* xplane.py 2178-2293: the decoding of one frame; exc: the except clause of
\* line 2292 was taken
decode(m) ==
    IF decode_raises(m) THEN [exc |-> TRUE, ev |-> <<>>, req |-> _requests]
    ELSE IF m.type = "result"
    THEN [exc |-> result_raises(m), ev |-> <<>>, req |-> result_requests(m, _requests)]
    ELSE IF m.type = "command_update_is_active"
    THEN [exc |-> FALSE, req |-> _requests,
          ev |-> IF m.hasdata THEN dispatch_commands(m.data, 1, <<>>) ELSE <<>>]
    ELSE IF m.type = "dataref_update_values"
    THEN IF m.hasdata
         THEN LET r == dispatch_frame(m.data, 1, <<>>) IN
              [exc |-> r.exc, ev |-> r.ev, req |-> _requests]
         ELSE [exc |-> FALSE, ev |-> <<>>, req |-> _requests]
    ELSE [exc |-> FALSE, ev |-> <<>>, req |-> _requests]

\* ------------------------------------------------------------------------
\* Handlers
\* ------------------------------------------------------------------------
Op(name, raised) == [op |-> name, raised |-> raised]

stm_len == Cardinality({d \in Variables : simulator_variable_to_monitor[d] > 0})

Lists(dr, d) == \E i \in Ids : dr.at[i] = One(d)

\* XPlane.add_simulator_variables_to_monitor(vs), vs the values of the dict in
\* their order
add_simulator_variables_to_monitor(vs) ==
    /\ UNCHANGED status
    /\ UNCHANGED more_vars
    /\ \A k \in 1 .. Len(vs) : _monitored[vs[k]] < MaxCount
    /\ UNCHANGED <<all_commands, request_vars, beacon_vars, thread_vars>>
    /\ UNCHANGED <<sim, ws, ws_event, all_datarefs, _last_updated, events, pc, local, returned>>
    /\ IF ~ws
       THEN /\ last_op' = Op("add", FALSE)
            /\ UNCHANGED <<req_number, _requests, indices, indices_history, _monitored,
                           simulator_variable_to_monitor, _dataref_by_id, wire>>
       ELSE LET acc == Collect(TRUE, vs, 1, [dr |-> EmptyDict, mon |-> _monitored, eff |-> <<>>])
                reg == register_bulk(TRUE, acc.dr)
                sends == Len(acc.dr.order) > 0
            IN  /\ _monitored' = acc.mon
                /\ last_op' = Op("add", acc.dr.raised)
                /\ IF acc.dr.raised
                   THEN UNCHANGED <<req_number, _requests, indices, indices_history,
                                    simulator_variable_to_monitor, _dataref_by_id, wire>>
                   ELSE /\ sends => req_number < MaxReq
                        /\ simulator_variable_to_monitor' =
                               base_count(simulator_variable_to_monitor, acc.eff, 1, 1)
                        /\ IF sends
                           THEN /\ indices' = reg.ind
                                /\ indices_history' = reg.his
                                /\ req_number' = req_number + 1
                                /\ _requests' = send_requests(TRUE, req_number, _requests)
                                /\ wire' = send_wire(TRUE, wire, "sub", MessageIds(reg.drefs))
                                /\ _dataref_by_id' = dict_union(_dataref_by_id, acc.dr)
                           ELSE UNCHANGED <<indices, indices_history, req_number, _requests,
                                            wire, _dataref_by_id>>

\* XPlane.remove_simulator_variables_to_monitor(vs)
remove_simulator_variables_to_monitor(vs) ==
    /\ UNCHANGED status
    /\ UNCHANGED more_vars
    /\ UNCHANGED <<all_commands, request_vars, beacon_vars, thread_vars>>
    /\ UNCHANGED <<sim, ws, ws_event, all_datarefs, _last_updated, events, pc, local, returned>>
    /\ IF ~ws /\ stm_len > 0
       THEN /\ last_op' = Op("remove", FALSE)
            /\ UNCHANGED <<req_number, _requests, indices, indices_history, _monitored,
                           simulator_variable_to_monitor, _dataref_by_id, wire>>
       ELSE LET acc == Collect(FALSE, vs, 1, [dr |-> EmptyDict, mon |-> _monitored, eff |-> <<>>])
                reg == register_bulk(FALSE, acc.dr)
                sends == Len(acc.dr.order) > 0
            IN  /\ _monitored' = acc.mon
                /\ last_op' = Op("remove", acc.dr.raised)
                /\ IF acc.dr.raised
                   THEN UNCHANGED <<req_number, _requests, indices, indices_history,
                                    simulator_variable_to_monitor, _dataref_by_id, wire>>
                   ELSE /\ (sends /\ ws) => req_number < MaxReq
                        /\ simulator_variable_to_monitor' =
                               base_count(simulator_variable_to_monitor, acc.eff, 1, -1)
                        /\ IF sends
                           THEN /\ indices' = reg.ind
                                /\ indices_history' = reg.his
                                /\ req_number' = IF ws THEN req_number + 1 ELSE req_number
                                /\ _requests' = send_requests(ws, req_number, _requests)
                                /\ wire' = send_wire(ws, wire, "unsub", MessageIds(reg.drefs))
                                /\ _dataref_by_id' = dict_delete(_dataref_by_id, acc.dr)
                           ELSE UNCHANGED <<indices, indices_history, req_number, _requests,
                                            wire, _dataref_by_id>>

\* XPlane.ws_receiver: one dataref_update_values frame is received and decoded
Receive(frame) ==
    /\ status' = 4
    /\ UNCHANGED more_vars
    /\ ws /\ ~ws_event /\ ws_thread
    /\ UNCHANGED <<all_commands, request_vars, beacon_vars, thread_vars>>
    /\ LET r == dispatch_frame(frame, 1, <<>>) IN
       /\ events' = r.ev
       /\ last_op' = Op("receive", r.exc)
    /\ UNCHANGED <<sim, ws, ws_event, req_number, _requests, all_datarefs, _last_updated,
                   indices, indices_history, _monitored, simulator_variable_to_monitor,
                   _dataref_by_id, wire, hist, pc, local, returned>>

\* A lookup that finds the command with identifier 1 under every name
get_command_meta_by_name_any(path) == 1

\* XPlaneREST.get_command_meta_by_name: the ident of the CommandMeta, NoIdent
\* for None
get_command_meta_by_name(path) == all_commands[path]

\* XPlaneWebSocket.send, lines 1426-1440, one whole call from one thread:
\* what it does to the counter, the table and the socket, and what it returns
send_body(payload) ==
    LET ok == ws /\ ~payload.none /\ payload.keys > 0 IN
    /\ ok => req_number < MaxReq
    /\ ret' = send_id(ok, req_number)
    /\ req_number' = IF ok THEN req_number + 1 ELSE req_number
    /\ _requests' = send_requests(ok, req_number, _requests)
    /\ sent' = IF ok THEN [payload EXCEPT !.req_id = req_number + 1] ELSE sent

\* XPlaneWebSocket.send(payload) called by the application
send(payload) ==
    /\ UNCHANGED status
    /\ UNCHANGED more_vars
    /\ send_body(payload)
    /\ last_op' = Op("send", FALSE)
    /\ UNCHANGED <<sim, ws, ws_event, all_datarefs, _last_updated, indices,
                   indices_history, _monitored, simulator_variable_to_monitor,
                   _dataref_by_id, wire, events, hist, pc, local, returned>>
    /\ UNCHANGED <<all_commands, received, beacon_vars, thread_vars>>

\* XPlaneWebSocket.set_command_is_active_with_duration(path, duration)
set_command_is_active_with_duration(path, duration) ==
    /\ UNCHANGED status
    /\ UNCHANGED more_vars
    /\ LET cmdref == get_command_meta_by_name(path) IN
       IF cmdref # NoIdent
       THEN send_body(Payload("command_set_is_active", cmdref, TRUE, duration))
       ELSE ret' = -1 /\ UNCHANGED <<req_number, _requests, sent>>
    /\ last_op' = Op("set_command_is_active_with_duration", FALSE)
    /\ UNCHANGED <<sim, ws, ws_event, all_datarefs, _last_updated, indices,
                   indices_history, _monitored, simulator_variable_to_monitor,
                   _dataref_by_id, wire, events, hist, pc, local, returned>>
    /\ UNCHANGED <<all_commands, received, beacon_vars, thread_vars>>

\* XPlaneWebSocket.set_command_is_active_without_duration(path, active)
set_command_is_active_without_duration(path, active) ==
    /\ UNCHANGED status
    /\ UNCHANGED more_vars
    /\ LET cmdref == get_command_meta_by_name(path) IN
       IF cmdref # NoIdent
       THEN send_body(Payload("command_set_is_active", cmdref, active, None))
       ELSE ret' = -1 /\ UNCHANGED <<req_number, _requests, sent>>
    /\ last_op' = Op("set_command_is_active_without_duration", FALSE)
    /\ UNCHANGED <<sim, ws, ws_event, all_datarefs, _last_updated, indices,
                   indices_history, _monitored, simulator_variable_to_monitor,
                   _dataref_by_id, wire, events, hist, pc, local, returned>>
    /\ UNCHANGED <<all_commands, received, beacon_vars, thread_vars>>

\* XPlane.ws_receiver, one turn of the loop: a frame of any kind is taken
\* from the socket and decoded; the loop goes on whatever the frame was
ws_receiver(m) ==
    /\ status' = 4
    /\ UNCHANGED more_vars
    /\ ws /\ ~ws_event /\ ws_thread
    /\ LET r == decode(m) IN
       /\ events' = r.ev
       /\ _requests' = r.req
       /\ last_op' = Op("ws_receiver", r.exc)
    /\ received' = m
    /\ UNCHANGED <<sim, ws, ws_event, req_number, all_datarefs, _last_updated,
                   indices, indices_history, _monitored, simulator_variable_to_monitor,
                   _dataref_by_id, wire, hist, pc, local, returned>>
    /\ UNCHANGED <<all_commands, sent, ret, beacon_vars, thread_vars>>

\* ------------------------------------------------------------------------
\* Inputs
\* ------------------------------------------------------------------------
MaxBatch == 2      \* variables passed to one add / remove call

Distinct(q) == \A i, j \in 1 .. Len(q) : i # j => q[i] # q[j]
Batches(V) == UNION {{q \in SeqsOf(V, n) : Distinct(q)} : n \in 1 .. MaxBatch}

\* Frames of one pair, for an id the simulator was asked about on this socket
Frames(values) == {<<[id |-> i, value |-> v]>> : i \in {j \in Ids : wire[j] # "none"},
                                                 v \in values}

\* The ids the simulator gives the names: two generations of the metadata
Generation1 == [n \in BaseNames |-> IF n = "s" THEN 1 ELSE 2]
Generation2 == [n \in BaseNames |-> IF n = "s" THEN 2 ELSE 1]

\* ------------------------------------------------------------------------
\* One WebSocket session: connected, metadata loaded, listener running
\* ------------------------------------------------------------------------
SessionInit ==
    /\ sim = Generation1
    /\ ws = TRUE
    /\ ws_event = FALSE
    /\ req_number = 0
    /\ _requests = [r \in 1 .. MaxReq |-> "none"]
    /\ all_datarefs = Generation1
    /\ _last_updated = 5
    /\ indices = [n \in BaseNames |-> <<>>]
    /\ indices_history = [n \in BaseNames |-> <<>>]
    /\ _monitored = [d \in Variables |-> 0]
    /\ simulator_variable_to_monitor = [d \in Variables |-> 0]
    /\ _dataref_by_id = [i \in Ids |-> NoEntry]
    /\ wire = [i \in Ids |-> "none"]
    /\ events = <<>>
    /\ last_op = Op("start", FALSE)
    /\ hist = [adds |-> 0, removes |-> 0, net |-> 0, subs |-> 0, unsubs |-> 0]
    /\ pc = [t \in Threads |-> "idle"]
    /\ local = [t \in Threads |-> 0]
    /\ returned = <<>>
    /\ all_commands = SimCommands
    /\ sent = NonePayload
    /\ ret = NoReturn
    /\ received = NoMessage
    /\ should_not_connect = "clear"
    /\ connect_thread = TRUE
    /\ ws_thread = TRUE
    /\ beacon_data = NoBeacon
    /\ beacon_calls = <<>>
    /\ packet = Timeout
    /\ beacon_event = "clear"
    /\ beacon_thread = TRUE
    /\ term = "run"
    /\ number_of_timeouts = 0
    /\ lpc = OneListener
    /\ held = [l \in Listeners |-> 0]
    /\ arrived = 0
    /\ emitted = <<>>
    /\ cmdevents = {}
    /\ uptime = 5
    /\ elapsed = 0
    /\ status = 3
    /\ host = "127.0.0.1"
    /\ port = 8086
    /\ _api_version = "/v1"
    /\ is_on = FALSE
    /\ datarefs = <<>>
    /\ datarefidx = 0
    /\ message = NoRREF
    /\ _by_name = <<>>
    /\ _by_ids = <<>>
    /\ _raw = <<>>

\* The message an add (on) or remove call for vs sends lists dataref d
Sends(on, vs, d) ==
    LET acc == Collect(on, vs, 1, [dr |-> EmptyDict, mon |-> _monitored, eff |-> <<>>])
    IN  ~acc.dr.raised /\ Lists(acc.dr, d)

\* Reference counting: add and remove calls for any variables, with the calls
\* and the messages for dataref "s" counted
Add(vs) ==
    /\ InSeq(S, vs) => hist.adds < MaxCalls
    /\ add_simulator_variables_to_monitor(vs)
    /\ hist' = [hist EXCEPT !.adds = IF ws /\ InSeq(S, vs) THEN @ + 1 ELSE @,
                            !.net = IF ws /\ InSeq(S, vs) THEN @ + 1 ELSE @,
                            !.subs = IF ws /\ Sends(TRUE, vs, S) THEN @ + 1 ELSE @]

Remove(vs) ==
    /\ InSeq(S, vs) => hist.removes < MaxCalls
    /\ remove_simulator_variables_to_monitor(vs)
    /\ hist' = [hist EXCEPT !.removes = IF ws /\ InSeq(S, vs) THEN @ + 1 ELSE @,
                            !.net = IF ws /\ InSeq(S, vs) /\ @ > 0 THEN @ - 1 ELSE @,
                            !.unsubs = IF ws /\ Sends(FALSE, vs, S) THEN @ + 1 ELSE @]

\* The variables of the reference-counting runs: the scalar and one array element
RefVariables == {S, Dataref("a", 0)}

RefNext ==
    \/ \E vs \in Batches(RefVariables) : Add(vs)
    \/ \E vs \in Batches(RefVariables) : Remove(vs)

RefSpec == SessionInit /\ [][RefNext]_vars

\* ------------------------------------------------------------------------
\* XPlaneWebSocket.send called from two threads, one bytecode step at a time
\* ------------------------------------------------------------------------
Calls == Len(returned) + Cardinality({t \in Threads : pc[t] \in {"load", "store", "return"}})

\* send, lines 1426-1427: connected, and the payload is not empty
send_call(t) ==
    /\ UNCHANGED status
    /\ UNCHANGED more_vars
    /\ pc[t] = "idle" /\ ws /\ Calls < MaxReq
    /\ UNCHANGED <<all_commands, request_vars, beacon_vars, thread_vars>>
    /\ pc' = [pc EXCEPT ![t] = "load"]
    /\ UNCHANGED <<sim, ws, ws_event, req_number, _requests, all_datarefs, _last_updated,
                   indices, indices_history, _monitored, simulator_variable_to_monitor,
                   _dataref_by_id, wire, events, last_op, hist, local, returned>>

\* next_req, line 1250: the right-hand side self.req_number + 1 is evaluated
next_req_load(t) ==
    /\ UNCHANGED status
    /\ UNCHANGED more_vars
    /\ pc[t] = "load"
    /\ UNCHANGED <<all_commands, request_vars, beacon_vars, thread_vars>>
    /\ local' = [local EXCEPT ![t] = req_number + 1]
    /\ pc' = [pc EXCEPT ![t] = "store"]
    /\ UNCHANGED <<sim, ws, ws_event, req_number, _requests, all_datarefs, _last_updated,
                   indices, indices_history, _monitored, simulator_variable_to_monitor,
                   _dataref_by_id, wire, events, last_op, hist, returned>>

\* next_req, line 1250: the value is stored in self.req_number
next_req_store(t) ==
    /\ UNCHANGED status
    /\ UNCHANGED more_vars
    /\ pc[t] = "store"
    /\ UNCHANGED <<all_commands, request_vars, beacon_vars, thread_vars>>
    /\ req_number' = local[t]
    /\ pc' = [pc EXCEPT ![t] = "return"]
    /\ UNCHANGED <<sim, ws, ws_event, _requests, all_datarefs, _last_updated,
                   indices, indices_history, _monitored, simulator_variable_to_monitor,
                   _dataref_by_id, wire, events, last_op, hist, local, returned>>

\* next_req, line 1251: return self.req_number; this is the id send() returns
next_req_return(t) ==
    /\ UNCHANGED status
    /\ UNCHANGED more_vars
    /\ pc[t] = "return"
    /\ UNCHANGED <<all_commands, request_vars, beacon_vars, thread_vars>>
    /\ local' = [local EXCEPT ![t] = req_number]
    /\ returned' = Append(returned, req_number)
    /\ pc' = [pc EXCEPT ![t] = "record"]
    /\ UNCHANGED <<sim, ws, ws_event, req_number, _requests, all_datarefs, _last_updated,
                   indices, indices_history, _monitored, simulator_variable_to_monitor,
                   _dataref_by_id, wire, events, last_op, hist>>

\* send, lines 1429-1436: the id goes in the payload and in _requests, the
\* message is sent and the id returned; self.ws.send(...) of line 1431 is in
\* no try block, and raises AttributeError when self.ws has become None since
\* the test of line 1426
send_return(t) ==
    /\ UNCHANGED status
    /\ UNCHANGED more_vars
    /\ pc[t] = "record"
    /\ UNCHANGED <<all_commands, request_vars, beacon_vars, thread_vars>>
    /\ _requests' = [_requests EXCEPT ![local[t]] = "pending"]
    /\ pc' = [pc EXCEPT ![t] = "idle"]
    /\ last_op' = Op("send", ~ws)
    /\ UNCHANGED <<sim, ws, ws_event, req_number, all_datarefs, _last_updated,
                   indices, indices_history, _monitored, simulator_variable_to_monitor,
                   _dataref_by_id, wire, events, hist, local, returned>>

SendNext ==
    \E t \in Threads :
        \/ send_call(t)
        \/ next_req_load(t)
        \/ next_req_store(t)
        \/ next_req_return(t)
        \/ send_return(t)

SendSpec == SessionInit /\ [][SendNext]_vars

\* The scalar dataref alone, and the simulator pushes numbers
ScalarNext ==
    \/ \E vs \in Batches({S}) : Add(vs)
    \/ \E vs \in Batches({S}) : Remove(vs)
    \/ \E frame \in Frames(Scalars) : Receive(frame)

ScalarSpec == SessionInit /\ [][ScalarNext]_vars

\* Array elements only: no consumer asks for the whole array
ElementVariables == {Dataref("a", i) : i \in Indices}

IndexNext ==
    \/ \E vs \in Batches(ElementVariables) : Add(vs)
    \/ \E vs \in Batches(ElementVariables) : Remove(vs)
    \/ \E frame \in Frames(Arrays) : Receive(frame)

IndexSpec == SessionInit /\ [][IndexNext]_vars

\* Array datarefs: the whole array "a" and its elements are added and removed,
\* and the simulator pushes arrays
ArrayVariables == {A} \cup ElementVariables

ArrayNext ==
    \/ \E vs \in Batches(ArrayVariables) : Add(vs)
    \/ \E vs \in Batches(ArrayVariables) : Remove(vs)
    \/ \E frame \in Frames(Arrays) : Receive(frame)

ArraySpec == SessionInit /\ [][ArrayNext]_vars

\* ------------------------------------------------------------------------
\* Connection life cycle: the connection monitor, the metadata cache, start()
\* ------------------------------------------------------------------------
\* XPlaneREST.reload_caches, line 1181
MINTIME_BETWEEN_RELOAD == 10

\* Values of sim/time/total_flight_time_sec read over REST (None: no value);
\* the time restarts with the flight
Times == {None, 5, 40}

\* A Cache whose load failed (lines 956-958), or no Cache yet
EmptyCache == [n \in BaseNames |-> NoIdent]

\* The metadata cache with its DatarefMeta objects, and XPlaneREST._last_updated
Cached == [all |-> all_datarefs, cmd |-> all_commands, last |-> _last_updated,
           ind |-> indices, his |-> indices_history]

\* Dataref.rest_value of the running time, lines 221-235: False, which counts
\* as 0, when the cache holds no meta data for it, else the value read (None
\* when the GET fails)
rest_value(all, t) == IF \A n \in BaseNames : all[n] = NoIdent THEN 0 ELSE t

\* reload_caches, lines 1182-1188: the cache was loaded before, the running
\* time has a value and is less than MINTIME_BETWEEN_RELOAD above that of the
\* previous load
reload_skipped(c, t) ==
    LET currtime == rest_value(c.all, t) IN
    c.last # 0 /\ currtime # None /\ currtime - c.last < MINTIME_BETWEEN_RELOAD

\* XPlaneREST.reload_caches; t is the running time read, ok the answer of the
\* simulator to the load (status 200). The new Cache holds new DatarefMeta
\* objects, with empty index lists; the API is version v2 and the commands are
\* loaded with the datarefs.
reload_caches(c, t, ok) ==
    IF reload_skipped(c, t)
    THEN c
    ELSE [all |-> IF ok THEN sim ELSE EmptyCache,
          cmd |-> IF ok THEN SimCommands ELSE EmptyCommands,
          last |-> LET currtime == rest_value(IF ok THEN sim ELSE EmptyCache, t)
                   IN  IF currtime # None THEN currtime ELSE c.last,
          ind |-> [n \in BaseNames |-> <<>>],
          his |-> [n \in BaseNames |-> <<>>]]

\* XPlane.rebuild_dataref_ids raises: the comprehension of line 1693 iterates
\* over the keys of _dataref_by_id, which are ints and have no "ident"
rebuild_dataref_ids_raises(c) ==
    /\ \E n \in BaseNames : c.all[n] # NoIdent
    /\ \E i \in Ids : _dataref_by_id[i] # NoEntry

\* ws_receiver, lines 2294-2297: the simulator closed the socket; it may have
\* restarted and given the names other ids. The listener sets ws_event and
\* leaves its loop (line 2151).
ConnectionClosed(gen) ==
    /\ status' = 2
    /\ UNCHANGED late_vars
    /\ lpc' = NoListener
    /\ UNCHANGED <<number_of_timeouts, cmdevents, frame_vars, clock_vars>>
    /\ ws /\ ~ws_event /\ ws_thread
    /\ ws' = FALSE
    /\ ws_event' = TRUE
    /\ sim' = gen
    /\ wire' = [i \in Ids |-> "none"]
    /\ last_op' = Op("closed", FALSE)
    /\ ws_thread' = FALSE
    /\ UNCHANGED <<all_commands, request_vars, beacon_vars, should_not_connect,
                   connect_thread, term>>
    /\ UNCHANGED <<req_number, _requests, all_datarefs, _last_updated, indices,
                   indices_history, _monitored, simulator_variable_to_monitor,
                   _dataref_by_id, events, hist, pc, local, returned>>

\* A start() that clears ws_event and starts no listener thread
NoListenerStarted(q) == q

\* XPlaneWebSocket.connect_loop, one turn of the loop while not connected:
\* connect_websocket (with its reload_caches) and, once connected, start().
\* A failed attempt made while ws_event is clear is counted (lines 1350-1358)
\* and the fifth in a row sets ws_event; a connection resets the count.
\* start() clears ws_event and starts a listener if it finds ws_event set
\* (lines 2315-2318), reloads the
\* cache, rebuilds the ids, then clean_simulator_variables_to_monitor sends
\* the unsubscription of what _dataref_by_id holds (no id of it is known when
\* this is reached with entries), empties _dataref_by_id and
\* simulator_variable_to_monitor; add_all_simulator_variables_to_monitor then
\* finds no variable to add.
StartListener(q) ==
    LET l == CHOOSE l \in Listeners : q[l] = "off" /\ \A k \in 1 .. (l - 1) : q[k] # "off"
    IN  [q EXCEPT ![l] = "recv"]

connect_loop(avail, t, ok) ==
    /\ status' = IF avail THEN (IF ws_event THEN 3 ELSE 2)
               ELSE IF ws_event THEN status
               ELSE IF number_of_timeouts + 1 >= MAX_TIMEOUT_COUNT THEN 1 ELSE 2
    /\ UNCHANGED late_vars
    /\ UNCHANGED <<cmdevents, frame_vars, clock_vars>>
    /\ connect_thread /\ should_not_connect = "clear"
    /\ ~ws
    /\ UNCHANGED <<sim, wire, events, hist, pc, local, returned, _monitored>>
    /\ UNCHANGED <<request_vars, beacon_vars, should_not_connect, connect_thread, term>>
    /\ IF ~avail
       THEN /\ number_of_timeouts' =
                   IF ~ws_event THEN number_of_timeouts + 1 ELSE number_of_timeouts
            /\ ws_event' = (ws_event \/ number_of_timeouts + 1 >= MAX_TIMEOUT_COUNT)
            /\ UNCHANGED <<ws, req_number, _requests, all_datarefs, _last_updated,
                           indices, indices_history, simulator_variable_to_monitor,
                           _dataref_by_id, last_op, all_commands, ws_thread, lpc>>
       ELSE LET c == reload_caches(reload_caches(Cached, t, ok), t, ok)
                entries == \E i \in Ids : _dataref_by_id[i] # NoEntry
            IN  /\ ws_event => \E l \in Listeners : lpc[l] = "off"
                /\ number_of_timeouts' = 0
                /\ lpc' = IF ws_event THEN StartListener(lpc) ELSE lpc
                /\ ws' = TRUE
                /\ ws_event' = FALSE
                /\ ws_thread' = (ws_event \/ ws_thread)
                /\ all_datarefs' = c.all
                /\ all_commands' = c.cmd
                /\ _last_updated' = c.last
                /\ indices' = c.ind
                /\ indices_history' = c.his
                /\ IF rebuild_dataref_ids_raises(c)
                   THEN /\ last_op' = Op("start", TRUE)
                        /\ UNCHANGED <<req_number, _requests, simulator_variable_to_monitor,
                                       _dataref_by_id>>
                   ELSE /\ entries => req_number < MaxReq
                        /\ last_op' = Op("start", FALSE)
                        /\ req_number' = IF entries THEN req_number + 1 ELSE req_number
                        /\ _requests' = send_requests(entries, req_number, _requests)
                        /\ _dataref_by_id' = [i \in Ids |-> NoEntry]
                        /\ simulator_variable_to_monitor' = [d \in Variables |-> 0]

\* XPlaneWebSocket.connect(reload_cache=True) while the monitor runs
connect(t, ok) ==
    /\ UNCHANGED status
    /\ UNCHANGED more_vars
    /\ LET c == reload_caches(Cached, t, ok) IN
       /\ all_datarefs' = c.all
       /\ all_commands' = c.cmd
       /\ _last_updated' = c.last
       /\ indices' = c.ind
       /\ indices_history' = c.his
    /\ should_not_connect # "None"
    /\ last_op' = Op("connect", FALSE)
    /\ UNCHANGED <<request_vars, beacon_vars, thread_vars>>
    /\ UNCHANGED <<sim, ws, ws_event, req_number, _requests, _monitored,
                   simulator_variable_to_monitor, _dataref_by_id, wire, events, hist,
                   pc, local, returned>>

\* The instance after construction and connect(): no socket, the listener
\* off, no cache
Init ==
    /\ sim = Generation1
    /\ ws = FALSE
    /\ ws_event = TRUE
    /\ req_number = 0
    /\ _requests = [r \in 1 .. MaxReq |-> "none"]
    /\ all_datarefs = EmptyCache
    /\ _last_updated = 0
    /\ indices = [n \in BaseNames |-> <<>>]
    /\ indices_history = [n \in BaseNames |-> <<>>]
    /\ _monitored = [d \in Variables |-> 0]
    /\ simulator_variable_to_monitor = [d \in Variables |-> 0]
    /\ _dataref_by_id = [i \in Ids |-> NoEntry]
    /\ wire = [i \in Ids |-> "none"]
    /\ events = <<>>
    /\ last_op = Op("init", FALSE)
    /\ hist = [adds |-> 0, removes |-> 0, net |-> 0, subs |-> 0, unsubs |-> 0]
    /\ pc = [t \in Threads |-> "idle"]
    /\ local = [t \in Threads |-> 0]
    /\ returned = <<>>
    /\ all_commands = EmptyCommands
    /\ sent = NonePayload
    /\ ret = NoReturn
    /\ received = NoMessage
    /\ should_not_connect = "clear"
    /\ connect_thread = TRUE
    /\ ws_thread = FALSE
    /\ beacon_data = NoBeacon
    /\ beacon_calls = <<>>
    /\ packet = Timeout
    /\ beacon_event = "clear"
    /\ beacon_thread = TRUE
    /\ term = "run"
    /\ number_of_timeouts = 0
    /\ lpc = NoListener
    /\ held = [l \in Listeners |-> 0]
    /\ arrived = 0
    /\ emitted = <<>>
    /\ cmdevents = {}
    /\ uptime = 0
    /\ elapsed = 0
    /\ status = 1
    /\ host = "127.0.0.1"
    /\ port = 8086
    /\ _api_version = "/v1"
    /\ is_on = FALSE
    /\ datarefs = <<>>
    /\ datarefidx = 0
    /\ message = NoRREF
    /\ _by_name = <<>>
    /\ _by_ids = <<>>
    /\ _raw = <<>>

\* What the application monitors and what the simulator pushes in these runs
LifeVariables == {S}
LifeValues == {Number(100)}
Generations == {Generation1, Generation2}

Next ==
    \/ \E vs \in Batches(LifeVariables) :
         add_simulator_variables_to_monitor(vs) /\ UNCHANGED hist
    \/ \E vs \in Batches(LifeVariables) :
         remove_simulator_variables_to_monitor(vs) /\ UNCHANGED hist
    \/ \E frame \in Frames(LifeValues) : Receive(frame)
    \/ \E gen \in Generations : ConnectionClosed(gen)
    \/ \E avail, ok \in BOOLEAN, t \in Times : connect_loop(avail, t, ok)
    \/ \E ok \in BOOLEAN, t \in Times : connect(t, ok)

Spec == Init /\ [][Next]_vars

\* The monitor thread keeps running and the simulator API stays reachable:
\* a turn of connect_loop that finds the API and loads the cache is taken
FairSpec == Spec /\ WF_vars(\E t \in Times : connect_loop(TRUE, t, TRUE))

\* ------------------------------------------------------------------------
\* Reference counting (RefSpec)
\* ------------------------------------------------------------------------
\* The simulator has been asked to send dataref d and the listener can
\* resolve its identifier
Subscribed(d) == wire[ident(d)] = "sub" /\ _dataref_by_id[ident(d)] = One(d)

\* C2, as stated: after N add and M remove calls for the scalar dataref "s"
\* made while connected, "s" is subscribed exactly when N - M > 0, and no
\* more dataref_unsubscribe_values than dataref_subscribe_values messages
\* were sent for it.
C2_SubscribedIffNetCalls ==
    /\ Subscribed(S) <=> (hist.adds - hist.removes > 0)
    /\ hist.unsubs <= hist.subs

\* C2, amended: "s" is subscribed exactly when the count of add calls minus
\* remove calls, where a remove call made at count 0 is not counted, is
\* positive; a subscribe message is sent only on the step from 0 to 1 and an
\* unsubscribe message only on the step from 1 to 0, so the unsubscribe
\* messages never outnumber the subscribe messages and exceed them by none.
C2_SubscribedIffClampedCount ==
    /\ Subscribed(S) <=> (hist.net > 0)
    /\ hist.net = _monitored[S]
    /\ hist.unsubs <= hist.subs
    /\ hist.subs - hist.unsubs = (IF hist.net > 0 THEN 1 ELSE 0)

\* C2 witness: removes at count 0 were made and "s" is still subscribed after
\* as many remove calls as add calls
C2_Witness ==
    /\ hist.adds = 2 /\ hist.removes = 2 /\ hist.net = 1
    /\ Subscribed(S)

\* C3: the monitor count of every dataref is never negative, and a call of
\* remove_simulator_variables_to_monitor for datarefs whose count is 0
\* changes no count, sends no message, removes nothing from _dataref_by_id
\* and raises no error.
C3_RemoveAtZeroIsNoop ==
    /\ [](\A d \in Variables : _monitored[d] >= 0)
    /\ [][\A vs \in Batches(RefVariables) :
            (remove_simulator_variables_to_monitor(vs) /\ \A k \in 1 .. Len(vs) : _monitored[vs[k]] = 0)
            => /\ UNCHANGED <<_monitored, simulator_variable_to_monitor, req_number,
                              _requests, wire, _dataref_by_id, indices>>
               /\ ~last_op'.raised]_vars

\* C3 witness: "s" was removed twice and never added, nothing was sent
C3_Witness ==
    /\ hist.removes = 2 /\ hist.adds = 0
    /\ last_op = Op("remove", FALSE)
    /\ _monitored[S] = 0 /\ req_number = 0

\* ------------------------------------------------------------------------
\* Array elements (ArraySpec)
\* ------------------------------------------------------------------------
\* The array of n values the simulator pushes, and the events the listener
\* enqueues for it when it comes under the identifier of "a"
Pushed(n) == [list |-> TRUE, v |-> [k \in 1 .. n |-> 100 + 10 * k]]
PushEvents(n) == dispatch_pair(ident(A), Pushed(n)).ev

\* _dataref_by_id holds a list for the identifier of dataref d, with d in it
Listed(d) == _dataref_by_id[ident(d)].list /\ InSeq(d, _dataref_by_id[ident(d)].drefs)

HasEventFor(d, ev) == \E k \in 1 .. Len(ev) : ev[k].dataref = d

\* C6: when a[i] and a[j] are both subscribed and the last consumer of a[i]
\* is removed, index j stays in the index list of "a", a[j] stays in
\* _dataref_by_id, and an array pushed afterwards still gives an event for a[j].
C6_OtherIndexStays ==
    [][\A i, j \in Indices :
         (/\ i # j /\ ws
          /\ Listed(Dataref("a", i)) /\ Listed(Dataref("a", j))
          /\ _monitored[Dataref("a", i)] = 1 /\ _monitored[Dataref("a", j)] > 0
          /\ remove_simulator_variables_to_monitor(<<Dataref("a", i)>>))
         => /\ InSeq(j, indices'["a"]) /\ ~InSeq(i, indices'["a"])
            /\ Listed(Dataref("a", j))'
            /\ HasEventFor(Dataref("a", j), PushEvents(Len(indices["a"]) - 1))']_vars

\* The events of a push of the values v for the indices q of "a"
IndexEvents(q, v) == [k \in 1 .. Len(q) |-> DatarefEvent(Dataref("a", q[k]), Number(v[k]))]

\* C7: when the index list of "a" is [i1, ..., in] and an array of n values
\* is pushed for the identifier of "a", exactly n events are enqueued, the
\* k-th being a[ik] = vk.
C7_EventPerIndex ==
    [][\A frame \in Frames(Arrays) :
         (/\ Receive(frame)
          /\ frame[1].id = ident(A)
          /\ Len(indices["a"]) > 0
          /\ Len(frame[1].value.v) = Len(indices["a"]))
         => events' = IndexEvents(indices["a"], frame[1].value.v)]_vars

\* C8: a change of the index list of "a" leaves the list as it was before in
\* the last snapshot; while an element of "a" is monitored, a pushed array
\* whose length is not that of the current
\* index list but that of the last snapshot is mapped onto the snapshot, and
\* one that matches neither gives no event and no error.
C8_SnapshotRetry ==
    [][/\ indices'["a"] # indices["a"] => last_indices("a")' = indices["a"]
       /\ \A frame \in Frames(Arrays) :
            (/\ Receive(frame)
             /\ frame[1].id = ident(A)
             /\ \E i \in Indices : _monitored[Dataref("a", i)] > 0
             /\ Len(frame[1].value.v) # Len(indices["a"]))
            => IF Len(frame[1].value.v) = Len(last_indices("a"))
               THEN events' = IndexEvents(last_indices("a"), frame[1].value.v)
               ELSE events' = <<>> /\ ~last_op'.raised]_vars

\* C9: while the whole array "a" and some, not all, of its elements are
\* monitored, a push of the length of the array gives one event for "a" with
\* the array, and a push of the length of the index list gives the events of
\* the indices.
C9_WholeAndIndexed ==
    (/\ ws /\ _monitored[A] > 0
     /\ \E i \in Indices : _monitored[Dataref("a", i)] > 0
     /\ \E i \in Indices : _monitored[Dataref("a", i)] = 0)
    => /\ PushEvents(MaxLen) = <<DatarefEvent(A, Pushed(MaxLen))>>
       /\ Len(indices["a"]) > 0
       /\ PushEvents(Len(indices["a"])) = IndexEvents(indices["a"], Pushed(Len(indices["a"])).v)

\* ------------------------------------------------------------------------
\* Scalar values (ScalarSpec)
\* ------------------------------------------------------------------------
\* C10: when a number is pushed for the scalar dataref "s" after an event
\* for "s" was enqueued, an event is enqueued for it exactly when its value
\* rounded to the rounding of "s" differs from the rounded value of that
\* previous event; the same raw value pushed twice gives one event.
C10_EventIffRoundedChange ==
    [][\A frame \in Frames(Scalars) :
         (/\ Receive(frame)
          /\ frame[1].id = ident(S)
          /\ _dataref_by_id[ident(S)] = One(S)
          /\ Len(events) = 1 /\ events[1].dataref = S /\ Len(events[1].value.v) = 1)
         => (events' # <<>>
               <=> dref_round(frame[1].value.v[1]) # dref_round(events[1].value.v[1]))]_vars

\* ------------------------------------------------------------------------
\* Request ids (SendSpec)
\* ------------------------------------------------------------------------
\* C1: every call of send() made while connected, from whatever thread, gets
\* an id greater than every id given before it, so no two calls get the same id.
C1_RequestIdsIncrease ==
    \A i, j \in 1 .. Len(returned) : i < j => returned[i] < returned[j]

\* ------------------------------------------------------------------------
\* Cache generations and reconnection (Spec, FairSpec)
\* ------------------------------------------------------------------------
\* C4: whatever cache generation reload_caches has installed (a loaded one),
\* the events the listener enqueues for a frame carrying identifier X are all
\* for datarefs whose name has identifier X in the current cache.
C4_NoStaleDispatch ==
    [][\A frame \in Frames(LifeValues) :
         (Receive(frame) /\ has_data)
         => \A k \in 1 .. Len(events') : ident(events'[k].dataref) = frame[1].id]_vars

\* The socket closed while datarefs were monitored and subscribed
ClosedWhileSubscribed ==
    /\ ~ws
    /\ \E d \in Variables, i \in Ids : _monitored[d] > 0 /\ _dataref_by_id[i] = One(d)

\* The socket is open again, start() ran to its end and the simulator has
\* been asked on this socket for every monitored dataref
Resubscribed ==
    /\ ws /\ last_op # Op("start", TRUE)
    /\ \A d \in Variables : _monitored[d] > 0 => valid(d) /\ wire[ident(d)] = "sub"

\* C5: when the socket closes while datarefs are monitored and subscribed,
\* and the API stays reachable, the monitor eventually reopens the socket
\* and start() subscribes every monitored dataref again.
C5_EventuallyResubscribed == ClosedWhileSubscribed ~> Resubscribed

\* ------------------------------------------------------------------------
\* The listener and frames of every kind
\* ------------------------------------------------------------------------
MaxPairs == 2      \* (identifier, value) pairs in the data of one frame

\* The numbers the simulator pushes in these runs
PushValues == {Number(100), Number(110)}

\* The data of a frame: a JSON object, so no identifier comes twice
DistinctIds(q) == \A i, j \in 1 .. Len(q) : i # j => q[i].id # q[j].id
PairLists(ids, values, n) ==
    {q \in SeqsOf({[id |-> i, value |-> v] : i \in ids, v \in values}, n) : DistinctIds(q)}

\* dataref_update_values frames for any identifiers of the simulator, asked
\* for or not, and one without data
UpdateMessages ==
    {Message(TRUE, "dataref_update_values", None, "missing", FALSE, TRUE, q) :
        q \in UNION {PairLists(Ids, PushValues, n) : n \in 1 .. MaxPairs}}
    \cup {Message(TRUE, "dataref_update_values", None, "missing", FALSE, FALSE, <<>>)}

\* command_update_is_active frames; identifier 3 is no command of the cache
CommandMessages ==
    {Message(TRUE, "command_update_is_active", None, "missing", FALSE, TRUE, q) :
        q \in UNION {PairLists(CommandIds, BOOLEAN, n) : n \in 1 .. MaxPairs}}
    \cup {Message(TRUE, "command_update_is_active", None, "missing", FALSE, FALSE, <<>>)}

\* Frames that are no message of the protocol: the text of an update cut
\* short (no JSON), an object without type, an object of an unknown type;
\* all carry what would be the data of an update
MalformedMessages ==
    {Message(k[1], k[2], None, "missing", FALSE, TRUE, q) :
        k \in {<<FALSE, "dataref_update_values">>, <<TRUE, "">>, <<TRUE, "bogus">>},
        q \in PairLists(Ids, PushValues, 1)}

IsMalformed(m) ==
    ~m.json \/ m.type \notin {"result", "command_update_is_active", "dataref_update_values"}

FrameNext ==
    \/ \E vs \in Batches({S}) : Add(vs)
    \/ \E vs \in Batches({S}) : Remove(vs)
    \/ \E m \in MalformedMessages : ws_receiver(m)
    \/ \E m \in UpdateMessages : ws_receiver(m)
    \/ \E m \in CommandMessages : ws_receiver(m)

FrameSpec == SessionInit /\ [][FrameNext]_vars

\* The listener runs and can take the next frame
Listening == ws /\ ~ws_event /\ ws_thread

\* The events of the pairs of data for the scalar dataref "s": one for each
\* pair under the identifier _dataref_by_id holds "s" for, in their order
ScalarEvents(data) ==
    LET known == SelectSeq(data, LAMBDA pr : _dataref_by_id[pr.id] = One(S)) IN
    [k \in 1 .. Len(known) |->
        [dataref |-> S, value |-> known[k].value,
         cascade |-> simulator_variable_to_monitor[S] > 0]]

\* The events of the pairs of data whose identifier is that of a command of
\* the cache
CommandEvents(data) ==
    LET known == SelectSeq(data, LAMBDA pr : \E n \in CommandNames : all_commands[n] = pr.id) IN
    [k \in 1 .. Len(known) |->
        [command |-> CHOOSE n \in CommandNames : all_commands[n] = known[k].id,
         is_active |-> known[k].value, cascade |-> TRUE]]

\* C11: a frame that is no JSON, has no type or has an unknown type gives no
\* event, changes no table and leaves the listener running; the frame that
\* comes after it, when well formed, gives exactly its own events.
C11_MalformedFrameIsolated ==
    [][LET m == received' IN
       /\ (IsMalformed(m) /\ ws_receiver(m))
          => /\ events' = <<>>
             /\ Listening'
             /\ UNCHANGED <<_requests, _dataref_by_id, _monitored, all_datarefs,
                            all_commands, simulator_variable_to_monitor, wire>>
       /\ (IsMalformed(received) /\ ~IsMalformed(m) /\ ws_receiver(m))
          => IF m.type = "dataref_update_values"
             THEN events' = ScalarEvents(m.data)
             ELSE events' = CommandEvents(m.data)]_vars

\* C11 witness: "s" is subscribed, the last frame was the cut text of an
\* update for "s", no event came of it and the listener still runs
C11_Witness ==
    /\ ~received.json /\ Len(received.data) = 1 /\ received.data[1].id = ident(S)
    /\ Subscribed(S) /\ Listening
    /\ events = <<>> /\ last_op = Op("ws_receiver", TRUE)

\* C12: when a dataref_update_values frame has an identifier that is not in
\* _dataref_by_id, no event is enqueued for that identifier, nothing is
\* raised, the other pairs of the frame give their events and the listener
\* runs on.
C12_UnknownIdSkipped ==
    [][LET m == received' IN
       (/\ m.json /\ m.type = "dataref_update_values" /\ m.hasdata
        /\ ws_receiver(m)
        /\ \E k \in 1 .. Len(m.data) : _dataref_by_id[m.data[k].id] = NoEntry)
       => /\ events' = ScalarEvents(m.data)
          /\ \A k \in 1 .. Len(m.data), e \in 1 .. Len(events') :
                _dataref_by_id[m.data[k].id] = NoEntry
                => ident(events'[e].dataref) # m.data[k].id
          /\ ~last_op'.raised
          /\ Listening']_vars

\* C12 witness: the last frame had a pair for an identifier that is not in
\* _dataref_by_id and then a pair for "s", and the event of "s" was enqueued
C12_Witness ==
    /\ received.type = "dataref_update_values" /\ received.json
    /\ Len(received.data) = 2
    /\ _dataref_by_id[received.data[1].id] = NoEntry
    /\ _dataref_by_id[received.data[2].id] = One(S)
    /\ events = <<DatarefEvent(S, received.data[2].value)>>
    /\ last_op = Op("ws_receiver", FALSE)

\* C17: a command_update_is_active frame gives, for every pair whose
\* identifier is in the command cache, one CommandActiveEvent with the name
\* of the command, the value of the pair and cascade true, the same frame
\* twice gives them twice, and a pair whose identifier is not in the cache
\* is skipped, raises nothing and stops no other pair.
C17_CommandEvents ==
    [][LET m == received' IN
       (/\ m.json /\ m.type = "command_update_is_active" /\ m.hasdata
        /\ ws_receiver(m))
       => /\ events' = CommandEvents(m.data)
          /\ ~last_op'.raised
          /\ Listening']_vars

\* C17 witness: the first pair of the last frame has an identifier that is
\* no command, its second pair is for the command "c" and gave the one event
C17_Witness ==
    /\ received.type = "command_update_is_active" /\ received.json
    /\ Len(received.data) = 2
    /\ get_command_meta_by_id(received.data[1].id) = ""
    /\ get_command_meta_by_id(received.data[2].id) = "c"
    /\ events = <<CommandActiveEvent("c", received.data[2].value)>>

\* ------------------------------------------------------------------------
\* Requests: send(), the command writes and the result frames
\* ------------------------------------------------------------------------
\* The payloads the application hands to send()
Payloads == {NonePayload, EmptyPayload, Payload("dataref_set_values", 1, FALSE, None)}

\* The durations of a command, and the names the application writes to: a
\* command of the simulator and a name the simulator does not know
Durations == {2}
WrittenNames == {"c", "x"}

\* result frames, without req_id or with one of the first two req_ids: a
\* success, a failure with and without its error texts, one without outcome
ResultMessages ==
    {Message(TRUE, "result", r, k[1], k[2], FALSE, <<>>) :
        r \in {None, 1, 2},
        k \in {<<"true", FALSE>>, <<"false", TRUE>>, <<"false", FALSE>>, <<"missing", FALSE>>}}

RequestNext ==
    \/ \E p \in Payloads : send(p)
    \/ \E path \in WrittenNames, d \in Durations : set_command_is_active_with_duration(path, d)
    \/ \E path \in WrittenNames : set_command_is_active_without_duration(path, FALSE)
    \/ \E m \in ResultMessages : ws_receiver(m)
    \/ ConnectionClosed(Generation1)
    \/ connect_loop(TRUE, None, TRUE)

RequestSpec == SessionInit /\ [][RequestNext]_vars

C16_UnknownCommandNotSent ==
    [][\A path \in WrittenNames :
         (/\ all_commands[path] = NoIdent
          /\ \/ \E d \in Durations : set_command_is_active_with_duration(path, d)
             \/ set_command_is_active_without_duration(path, FALSE))
         => ret' = -1 /\ UNCHANGED <<req_number, _requests, sent, wire>>]_vars

\* C16 witness: connected, the cache knows commands, a command was sent
\* before, and the last call, for a name the cache does not know, returned -1
C16_Witness ==
    /\ ws /\ all_commands = SimCommands
    /\ last_op = Op("set_command_is_active_with_duration", FALSE)
    /\ ret = -1 /\ req_number > 0 /\ sent.type = "command_set_is_active"

\* C14: a result frame whose req_id send() never gave out changes no entry of
\* _requests, creates none, and the listener runs on.
C14_UnknownResultIgnored ==
    [][LET m == received' IN
       (/\ m.json /\ m.type = "result"
        /\ m.req_id # None /\ m.req_id > req_number
        /\ ws_receiver(m))
       => UNCHANGED _requests /\ Listening']_vars

\* C15: an entry of _requests is created by send(), pending; it changes once
\* at most, from pending to success or failure, through a result frame with
\* its req_id; it is never removed, and a later result frame with the same
\* req_id does not change the outcome it holds.
C15_OutcomeSetOnce ==
    [][/\ req_number' > req_number => _requests'[req_number'] = "pending"
       /\ \A r \in 1 .. req_number :
            /\ _requests'[r] # "none"
            /\ _requests'[r] # _requests[r]
               => /\ _requests[r] = "pending"
                  /\ _requests'[r] \in {"success", "failure"}
                  /\ received'.type = "result" /\ received'.req_id = r
                  /\ ws_receiver(received')]_vars

\* ------------------------------------------------------------------------
\* The beacon (beacon.py)
\* ------------------------------------------------------------------------
\* XPlaneBeacon.connected
beacon_connected(data) == data.IP # ""

\* A version gate that lets every packet with the header through
version_supported_any(p) == TRUE

\* FindIp, line 156
version_supported(p) ==
    p.beacon_major_version = 1 /\ p.beacon_minor_version <= 2 /\ p.application_host_id = 1

\* XPlaneBeacon.FindIp: beacon_data is emptied (line 100), then filled from
\* a packet of a supported version; exc is the exception FindIp raises
FindIp(p) ==
    IF p.timeout THEN [data |-> NoBeacon, exc |-> "XPlaneIpNotFound"]
    ELSE IF ~p.header THEN [data |-> NoBeacon, exc |-> ""]
    ELSE IF version_supported(p)
    THEN [data |-> BeaconData(p.ip, p.xplane_version_number), exc |-> ""]
    ELSE [data |-> NoBeacon, exc |-> "XPlaneVersionNotSupported"]

\* A loop that keeps what it found to itself
beacon_callbacks_none(r) == <<>>

\* connect_loop, lines 186-212: the callbacks of one discovery attempt
beacon_callbacks(r) ==
    IF r.exc # "" THEN <<FALSE>>
    ELSE IF beacon_connected(r.data) THEN <<TRUE>>
    ELSE <<>>

\* The addresses of this machine (list_my_ips, beacon.py 26-34)
list_my_ips == {"10.0.0.1"}

\* XPlaneBeacon.same_host, with beacon_data data
same_host(data) == beacon_connected(data) /\ data.IP \in list_my_ips

\* An API version that takes every simulator for a recent one
api_version_latest(xp_version, current) == "/v2"

\* beacon_callback, lines 1105-1118: the API version for the version number
\* of the beacon
api_version(xp_version, current) ==
    IF xp_version >= 121400 THEN "/v2"
    ELSE IF xp_version >= 121100 THEN "/v1"
    ELSE current

\* XPlaneREST.beacon_callback(connected) with the beacon holding data; e is
\* the endpoint before the call
beacon_callback(connected, data, e) ==
    IF connected /\ beacon_connected(data)
    THEN [host |-> IF same_host(data) THEN "127.0.0.1" ELSE data.IP,
          port |-> IF same_host(data) THEN 8086 ELSE 8080,
          _api_version |-> api_version(data.XPlaneVersion, e._api_version)]
    ELSE e

\* The endpoint after the callbacks of one turn of the beacon loop
after_callbacks(calls, data) ==
    LET e == [host |-> host, port |-> port, _api_version |-> _api_version] IN
    IF Len(calls) = 0 THEN e ELSE beacon_callback(calls[1], data, e)

\* XPlaneBeacon.connect_loop, one turn of the loop: a discovery attempt when
\* no endpoint is known, a wait otherwise; the callback is
\* XPlaneREST.beacon_callback (xplane.py 1026)
beacon_connect_loop(p) ==
    /\ UNCHANGED status
    /\ UNCHANGED <<number_of_timeouts, lpc, cmdevents, frame_vars, clock_vars, udp_vars,
                   cache_vars, is_on>>
    /\ beacon_thread /\ beacon_event = "clear"
    /\ IF beacon_connected(beacon_data)
       THEN /\ beacon_calls' = <<>>
            /\ UNCHANGED <<beacon_data, packet, endpoint_vars>>
       ELSE LET r == FindIp(p)
                data == IF r.exc # "" THEN NoBeacon ELSE r.data
                e == after_callbacks(beacon_callbacks(r), data)
            IN  /\ packet' = p
                /\ beacon_data' = data
                /\ beacon_calls' = beacon_callbacks(r)
                /\ host' = e.host
                /\ port' = e.port
                /\ _api_version' = e._api_version
    /\ UNCHANGED <<beacon_event, beacon_thread>>
    /\ UNCHANGED <<sim, ws, ws_event, req_number, _requests, all_datarefs, _last_updated,
                   indices, indices_history, _monitored, simulator_variable_to_monitor,
                   _dataref_by_id, wire, events, last_op, hist, pc, local, returned>>
    /\ UNCHANGED <<all_commands, request_vars, thread_vars>>

\* XPlaneBeacon.connect_loop, line 182: the loop ends when should_not_connect
\* is set or None
beacon_connect_loop_exit ==
    /\ UNCHANGED status
    /\ UNCHANGED more_vars
    /\ beacon_thread /\ beacon_event # "clear"
    /\ beacon_thread' = FALSE
    /\ UNCHANGED <<beacon_data, beacon_calls, packet, beacon_event>>
    /\ UNCHANGED <<sim, ws, ws_event, req_number, _requests, all_datarefs, _last_updated,
                   indices, indices_history, _monitored, simulator_variable_to_monitor,
                   _dataref_by_id, wire, events, last_op, hist, pc, local, returned>>
    /\ UNCHANGED <<all_commands, request_vars, thread_vars>>

\* XPlaneBeacon.disconnect, lines 240-246: up to the join of the thread
beacon_disconnect ==
    /\ UNCHANGED status
    /\ UNCHANGED more_vars
    /\ beacon_event = "clear"
    /\ beacon_data' = NoBeacon
    /\ beacon_event' = "set"
    /\ UNCHANGED <<beacon_calls, packet, beacon_thread>>
    /\ UNCHANGED <<sim, ws, ws_event, req_number, _requests, all_datarefs, _last_updated,
                   indices, indices_history, _monitored, simulator_variable_to_monitor,
                   _dataref_by_id, wire, events, last_op, hist, pc, local, returned>>
    /\ UNCHANGED <<all_commands, request_vars, thread_vars>>

\* XPlaneBeacon.disconnect, lines 246-250: the join returns, with the thread
\* ended or after its timeout, and should_not_connect is None again
beacon_disconnect_return ==
    /\ UNCHANGED status
    /\ UNCHANGED more_vars
    /\ beacon_event = "set"
    /\ beacon_event' = "None"
    /\ UNCHANGED <<beacon_data, beacon_calls, packet, beacon_thread>>
    /\ UNCHANGED <<sim, ws, ws_event, req_number, _requests, all_datarefs, _last_updated,
                   indices, indices_history, _monitored, simulator_variable_to_monitor,
                   _dataref_by_id, wire, events, last_op, hist, pc, local, returned>>
    /\ UNCHANGED <<all_commands, request_vars, thread_vars>>

\* XPlaneBeacon.connect: a new event and a new thread once the old one ended
beacon_connect ==
    /\ UNCHANGED status
    /\ UNCHANGED more_vars
    /\ beacon_event = "None" /\ ~beacon_thread
    /\ beacon_event' = "clear"
    /\ beacon_thread' = TRUE
    /\ UNCHANGED <<beacon_data, beacon_calls, packet>>
    /\ UNCHANGED <<sim, ws, ws_event, req_number, _requests, all_datarefs, _last_updated,
                   indices, indices_history, _monitored, simulator_variable_to_monitor,
                   _dataref_by_id, wire, events, last_op, hist, pc, local, returned>>
    /\ UNCHANGED <<all_commands, request_vars, thread_vars>>

\* The packets on the multicast group: X-Plane and PlaneMaker, beacons of
\* versions 1.1 to 2.3, other senders, two hosts
Majors == {1, 2}
Minors == {1, 2, 3}
Apps == {1, 2}
Hosts == {"10.0.0.1", "10.0.0.2"}
Packets ==
    {Timeout} \cup
    {Packet(FALSE, h, ma, mi, ap, 121400, ip) :
        h \in BOOLEAN, ma \in Majors, mi \in Minors, ap \in Apps, ip \in Hosts}

BeaconNext ==
    \/ \E p \in Packets : beacon_connect_loop(p)
    \/ beacon_connect_loop_exit
    \/ beacon_disconnect
    \/ beacon_disconnect_return
    \/ beacon_connect

BeaconSpec == SessionInit /\ [][BeaconNext]_vars

\* A packet with the header of a beacon and a version FindIp does not take
Unsupported(p) ==
    /\ ~p.timeout /\ p.header
    /\ \/ p.beacon_major_version # 1
       \/ p.beacon_minor_version > 2
       \/ p.application_host_id # 1

\* C18: a beacon packet with a valid header and major version other than 1,
\* minor version above 2 or application-host-id other than 1 fills no
\* endpoint: FindIp raises, and after the turn of the loop that received it
\* beacon_data is empty, connected is false and the callback was called with
\* false, whatever endpoint was known before.
C18_VersionGate ==
    /\ [](\A p \in Packets : Unsupported(p)
            => FindIp(p) = [data |-> NoBeacon, exc |-> "XPlaneVersionNotSupported"])
    /\ [][\A p \in Packets :
            (Unsupported(p) /\ ~beacon_connected(beacon_data) /\ beacon_connect_loop(p))
            => /\ beacon_data' = NoBeacon
               /\ ~beacon_connected(beacon_data')
               /\ beacon_calls' = <<FALSE>>]_vars

\* C18 witness: the loop runs, the last packet had the header and major
\* version 2, no endpoint is known and the callback got false
C18_Witness ==
    /\ beacon_thread /\ beacon_event = "clear"
    /\ ~packet.timeout /\ packet.header /\ packet.beacon_major_version = 2
    /\ packet.beacon_minor_version = 1 /\ packet.application_host_id = 1
    /\ beacon_data = NoBeacon /\ beacon_calls = <<FALSE>>

\* C19: in the loop of the beacon, an attempt that ends in a socket timeout
\* or in an unsupported version leaves beacon_data empty and calls the
\* callback once, with false; an attempt that finds X-Plane calls it once,
\* with true.
C19_OneCallbackPerAttempt ==
    [][\A p \in Packets :
         (~beacon_connected(beacon_data) /\ beacon_connect_loop(p))
         => /\ (p.timeout \/ Unsupported(p))
               => beacon_data' = NoBeacon /\ beacon_calls' = <<FALSE>>
            /\ (~p.timeout /\ p.header /\ ~Unsupported(p))
               => /\ beacon_data' = BeaconData(p.ip, p.xplane_version_number)
                  /\ beacon_calls' = <<TRUE>>]_vars

\* C19 witness: the last attempt ended in a socket timeout; no endpoint is
\* known and the callback was called once, with false
C19_Witness ==
    /\ beacon_thread /\ beacon_event = "clear"
    /\ packet.timeout /\ beacon_data = NoBeacon /\ beacon_calls = <<FALSE>>

\* ------------------------------------------------------------------------
\* XPlane.terminate and the three loops
\* ------------------------------------------------------------------------
\* XPlaneWebSocket.connect_loop, line 1320: the loop ends when
\* should_not_connect is set or None
connect_loop_exit ==
    /\ status' = 0
    /\ UNCHANGED more_vars
    /\ connect_thread /\ should_not_connect # "clear"
    /\ connect_thread' = FALSE
    /\ UNCHANGED <<should_not_connect, ws_thread, term>>
    /\ UNCHANGED <<sim, ws, ws_event, req_number, _requests, all_datarefs, _last_updated,
                   indices, indices_history, _monitored, simulator_variable_to_monitor,
                   _dataref_by_id, wire, events, last_op, hist, pc, local, returned>>
    /\ UNCHANGED <<all_commands, request_vars, beacon_vars>>

\* XPlane.ws_receiver, lines 2151 and 2302-2304: ws_event is set, the loop
\* ends and the listener closes the socket if there is one
ws_receiver_exit ==
    /\ status' = 2
    /\ UNCHANGED late_vars
    /\ lpc' = NoListener
    /\ UNCHANGED <<number_of_timeouts, cmdevents, frame_vars, clock_vars>>
    /\ ws_thread /\ ws_event
    /\ ws_thread' = FALSE
    /\ ws' = FALSE
    /\ wire' = [i \in Ids |-> "none"]
    /\ last_op' = Op("ws_receiver_exit", FALSE)
    /\ UNCHANGED <<should_not_connect, connect_thread, term>>
    /\ UNCHANGED <<sim, ws_event, req_number, _requests, all_datarefs, _last_updated,
                   indices, indices_history, _monitored, simulator_variable_to_monitor,
                   _dataref_by_id, events, hist, pc, local, returned>>
    /\ UNCHANGED <<all_commands, request_vars, beacon_vars>>

\* XPlane.ws_receiver, lines 2153 and 2299-2300: ws_event is clear and
\* self.ws is None; self.ws.receive raises AttributeError, the last except
\* clause logs it and the loop goes round
ws_receiver_error ==
    /\ UNCHANGED status
    /\ UNCHANGED more_vars
    /\ ws_thread /\ ~ws_event /\ ~ws
    /\ last_op' = Op("ws_receiver", TRUE)
    /\ UNCHANGED <<sim, ws, ws_event, req_number, _requests, all_datarefs, _last_updated,
                   indices, indices_history, _monitored, simulator_variable_to_monitor,
                   _dataref_by_id, wire, events, hist, pc, local, returned>>
    /\ UNCHANGED <<all_commands, request_vars, beacon_vars, thread_vars>>

\* XPlane.terminate, lines 2374-2378: remove_all_simulator_variables_to_monitor
\* (the base class forgets what was asked for, unless not connected with
\* datarefs in the database), remove_all_simulator_events_to_monitor (no
\* command event is monitored here) and stop(), up to the join of the listener
terminate_stop ==
    /\ UNCHANGED status
    /\ UNCHANGED more_vars
    /\ term = "run"
    /\ term' = "stop"
    /\ simulator_variable_to_monitor' =
           IF ws THEN [d \in Variables |-> 0] ELSE simulator_variable_to_monitor
    /\ ws_event' = TRUE
    /\ last_op' = Op("terminate", FALSE)
    /\ UNCHANGED <<should_not_connect, connect_thread, ws_thread>>
    /\ UNCHANGED <<sim, ws, req_number, _requests, all_datarefs, _last_updated,
                   indices, indices_history, _monitored, _dataref_by_id, wire, events,
                   hist, pc, local, returned>>
    /\ UNCHANGED <<all_commands, request_vars, beacon_vars>>

\* _dataref_by_id as the dict register_bulk_dataref_value_event goes through
TableDict ==
    [order |-> SelectSeq(<<1, 2>>, LAMBDA i : _dataref_by_id[i] # NoEntry),
     at |-> _dataref_by_id, raised |-> FALSE]

\* XPlane.terminate, lines 2378-2383: the join of the listener returns;
\* cleanup() (clean_simulator_variables_to_monitor unsubscribes what
\* _dataref_by_id holds when connected) and disconnect() up to the join of
\* the beacon thread in XPlaneBeacon.disconnect
terminate_cleanup ==
    /\ UNCHANGED status
    /\ UNCHANGED more_vars
    /\ term = "stop"
    /\ term' = "beacon"
    /\ IF ws
       THEN LET reg == register_bulk(FALSE, TableDict)
                sends == Len(TableDict.order) > 0
            IN  /\ sends => req_number < MaxReq
                /\ indices' = reg.ind
                /\ indices_history' = reg.his
                /\ req_number' = IF sends THEN req_number + 1 ELSE req_number
                /\ _requests' = send_requests(sends, req_number, _requests)
                /\ wire' = send_wire(sends, wire, "unsub", MessageIds(reg.drefs))
                /\ _dataref_by_id' = [i \in Ids |-> NoEntry]
                /\ simulator_variable_to_monitor' = [d \in Variables |-> 0]
       ELSE UNCHANGED <<indices, indices_history, req_number, _requests, wire,
                        _dataref_by_id, simulator_variable_to_monitor>>
    /\ IF beacon_event # "None"
       THEN beacon_data' = NoBeacon /\ beacon_event' = "set"
       ELSE UNCHANGED <<beacon_data, beacon_event>>
    /\ last_op' = Op("terminate", FALSE)
    /\ UNCHANGED <<should_not_connect, connect_thread, ws_thread>>
    /\ UNCHANGED <<sim, ws, ws_event, all_datarefs, _last_updated, _monitored, events,
                   hist, pc, local, returned>>
    /\ UNCHANGED <<all_commands, request_vars, beacon_calls, packet, beacon_thread>>

\* XPlaneWebSocket.disconnect, lines 1403-1408: the join of the beacon
\* returns (its should_not_connect is None again), disconnect_websocket
\* closes the socket and should_not_connect is set, up to the join of the
\* monitor. A listener that is inside ws.receive when the socket closes
\* (inside) gets ConnectionClosed and sets ws_event; one that is between two
\* receives finds self.ws None at its next turn.
terminate_disconnect(inside) ==
    /\ UNCHANGED status
    /\ UNCHANGED more_vars
    /\ term = "beacon"
    /\ term' = "monitor"
    /\ beacon_event' = "None"
    /\ ws' = FALSE
    /\ wire' = [i \in Ids |-> "none"]
    /\ ws_event' = IF ws /\ ws_thread /\ inside THEN TRUE ELSE ws_event
    /\ should_not_connect' = "set"
    /\ last_op' = Op("terminate", FALSE)
    /\ UNCHANGED <<connect_thread, ws_thread>>
    /\ UNCHANGED <<sim, req_number, _requests, all_datarefs, _last_updated,
                   indices, indices_history, _monitored, simulator_variable_to_monitor,
                   _dataref_by_id, events, hist, pc, local, returned>>
    /\ UNCHANGED <<all_commands, request_vars, beacon_data, beacon_calls, packet,
                   beacon_thread>>

\* XPlaneWebSocket.disconnect, lines 1409-1413: the join of the monitor
\* returns, with the thread ended or after its timeout; should_not_connect
\* is None and terminate() returns
terminate_return ==
    /\ UNCHANGED status
    /\ UNCHANGED more_vars
    /\ term = "monitor"
    /\ term' = "done"
    /\ should_not_connect' = "None"
    /\ last_op' = Op("terminate", FALSE)
    /\ UNCHANGED <<connect_thread, ws_thread>>
    /\ UNCHANGED <<sim, ws, ws_event, req_number, _requests, all_datarefs, _last_updated,
                   indices, indices_history, _monitored, simulator_variable_to_monitor,
                   _dataref_by_id, wire, events, hist, pc, local, returned>>
    /\ UNCHANGED <<all_commands, request_vars, beacon_vars>>

\* The beacon hears nothing or hears X-Plane
TermPackets == {Timeout, Packet(FALSE, TRUE, 1, 1, 1, 121400, "10.0.0.1")}

TermNext ==
    \/ add_simulator_variables_to_monitor(<<S>>) /\ UNCHANGED hist
    \/ \E frame \in Frames(LifeValues) : Receive(frame)
    \/ ConnectionClosed(Generation1)
    \/ \E avail \in BOOLEAN : connect_loop(avail, None, TRUE)
    \/ connect_loop_exit
    \/ ws_receiver_exit
    \/ ws_receiver_error
    \/ \E p \in TermPackets : beacon_connect_loop(p)
    \/ beacon_connect_loop_exit
    \/ terminate_stop
    \/ terminate_cleanup
    \/ \E inside \in BOOLEAN : terminate_disconnect(inside)
    \/ terminate_return

\* Every thread that can take a step takes one: the loops look at their
\* events again, the thread in terminate() goes on after each join
TermSpec ==
    /\ Init /\ [][TermNext]_vars
    /\ WF_vars(connect_loop_exit)
    /\ WF_vars(ws_receiver_exit)
    /\ WF_vars(beacon_connect_loop_exit)
    /\ WF_vars(terminate_cleanup)
    /\ WF_vars(\E inside \in BOOLEAN : terminate_disconnect(inside))
    /\ WF_vars(terminate_return)

\* The three loops have ended and no socket is open
AllStopped == ~connect_thread /\ ~beacon_thread /\ ~ws_thread /\ ~ws

\* C20: once terminate() is called, whatever the loops were doing, eventually
\* the connection monitor, the beacon loop and the listener have all ended
\* and no WebSocket is open, and it stays so.
C20_TerminateStopsAll == (term # "run") ~> [](AllStopped)

\* ------------------------------------------------------------------------
\* XPlane.terminate called a second time
\* ------------------------------------------------------------------------
\* XPlane.terminate, lines 2374-2378, called again after it returned:
\* remove_all_simulator_variables_to_monitor, remove_all_simulator_events_to_monitor
\* and stop(), which sets ws_event if it finds it clear, up to the join of
\* the listener
terminate_again_stop ==
    /\ UNCHANGED status
    /\ UNCHANGED more_vars
    /\ term = "done"
    /\ term' = "stop2"
    /\ simulator_variable_to_monitor' =
           IF ws THEN [d \in Variables |-> 0] ELSE simulator_variable_to_monitor
    /\ ws_event' = TRUE
    /\ last_op' = Op("terminate", FALSE)
    /\ UNCHANGED <<should_not_connect, connect_thread, ws_thread>>
    /\ UNCHANGED <<sim, ws, req_number, _requests, all_datarefs, _last_updated,
                   indices, indices_history, _monitored, _dataref_by_id, wire, events,
                   hist, pc, local, returned>>
    /\ UNCHANGED <<all_commands, request_vars, beacon_vars>>

\* XPlane.terminate, lines 2378-2383, second call: cleanup() and
\* disconnect(), which finds should_not_connect None and only closes the
\* socket if there is one (lines 1414-1418); no join is made
terminate_again_return ==
    /\ UNCHANGED status
    /\ UNCHANGED more_vars
    /\ term = "stop2" /\ should_not_connect = "None"
    /\ term' = "done2"
    /\ IF ws
       THEN LET reg == register_bulk(FALSE, TableDict)
                sends == Len(TableDict.order) > 0
            IN  /\ sends => req_number < MaxReq
                /\ indices' = reg.ind
                /\ indices_history' = reg.his
                /\ req_number' = IF sends THEN req_number + 1 ELSE req_number
                /\ _requests' = send_requests(sends, req_number, _requests)
                /\ _dataref_by_id' = [i \in Ids |-> NoEntry]
                /\ simulator_variable_to_monitor' = [d \in Variables |-> 0]
                /\ ws' = FALSE
                /\ wire' = [i \in Ids |-> "none"]
       ELSE UNCHANGED <<indices, indices_history, req_number, _requests, wire,
                        _dataref_by_id, simulator_variable_to_monitor, ws>>
    /\ last_op' = Op("terminate", FALSE)
    /\ UNCHANGED <<should_not_connect, connect_thread, ws_thread>>
    /\ UNCHANGED <<sim, ws_event, all_datarefs, _last_updated, _monitored, events,
                   hist, pc, local, returned>>
    /\ UNCHANGED <<all_commands, request_vars, beacon_vars>>

TwiceNext ==
    \/ TermNext
    \/ terminate_again_stop
    \/ terminate_again_return

TwiceSpec == Init /\ [][TwiceNext]_vars

\* What terminate() is to leave behind: the events of the loops, the socket,
\* the endpoint and the three threads
stopped_state ==
    <<ws, ws_event, should_not_connect, beacon_event, beacon_data,
      connect_thread, beacon_thread, ws_thread>>

\* C21: stopping is idempotent; a second terminate() leaves the loops, the
\* socket and the endpoint as the first call left them, and raises no error.
C21_SecondTerminateChangesNothing ==
    [][(terminate_again_stop \/ terminate_again_return)
           => (UNCHANGED stopped_state /\ ~last_op'.raised)]_vars

\* ------------------------------------------------------------------------
\* The listener one statement at a time, with the monitor and the beacon
\* ------------------------------------------------------------------------
MaxFrames == 2     \* frames the simulator sends in one behaviour

\* The n-th frame taken from the socket: the result of request n
Frame(n) == Message(TRUE, "result", n, "true", FALSE, FALSE, <<>>)

ListenerAlive(q) == \E l \in Listeners : q[l] # "off"

\* ws_receiver, line 2153: ws.receive returns the next frame of the socket
ws_receive(l) ==
    /\ status' = 4
    /\ UNCHANGED late_vars
    /\ lpc[l] = "recv" /\ ~ws_event /\ ws
    /\ arrived < MaxFrames
    /\ arrived' = arrived + 1
    /\ held' = [held EXCEPT ![l] = arrived + 1]
    /\ lpc' = [lpc EXCEPT ![l] = "decode"]
    /\ UNCHANGED <<sim, ws, ws_event, req_number, _requests, all_datarefs, _last_updated,
                   indices, indices_history, _monitored, simulator_variable_to_monitor,
                   _dataref_by_id, wire, events, last_op, hist, pc, local, returned>>
    /\ UNCHANGED <<all_commands, request_vars, beacon_vars, thread_vars>>
    /\ UNCHANGED <<number_of_timeouts, emitted, cmdevents, clock_vars>>

\* ws_receiver, lines 2178-2293: the frame the listener holds is decoded, its
\* request outcome recorded and its events enqueued; back to line 2151
ws_decode(l) ==
    /\ UNCHANGED <<late_vars, status>>
    /\ lpc[l] = "decode"
    /\ LET r == decode(Frame(held[l])) IN
       /\ events' = r.ev
       /\ _requests' = r.req
       /\ last_op' = Op("ws_receiver", r.exc)
    /\ received' = Frame(held[l])
    /\ emitted' = Append(emitted, held[l])
    /\ held' = [held EXCEPT ![l] = 0]
    /\ lpc' = [lpc EXCEPT ![l] = "recv"]
    /\ UNCHANGED <<sim, ws, ws_event, req_number, all_datarefs, _last_updated,
                   indices, indices_history, _monitored, simulator_variable_to_monitor,
                   _dataref_by_id, wire, hist, pc, local, returned>>
    /\ UNCHANGED <<all_commands, sent, ret, beacon_vars, thread_vars>>
    /\ UNCHANGED <<number_of_timeouts, arrived, cmdevents, clock_vars>>

\* ws_receiver, lines 2294-2296: ws.receive raises ConnectionClosed and the
\* listener sets self.ws = None
ws_closed(l) ==
    /\ UNCHANGED <<late_vars, status>>
    /\ lpc[l] = "recv" /\ ~ws_event /\ ws
    /\ ws' = FALSE
    /\ wire' = [i \in Ids |-> "none"]
    /\ lpc' = [lpc EXCEPT ![l] = "closed"]
    /\ last_op' = Op("closed", FALSE)
    /\ UNCHANGED <<sim, ws_event, req_number, _requests, all_datarefs, _last_updated,
                   indices, indices_history, _monitored, simulator_variable_to_monitor,
                   _dataref_by_id, events, hist, pc, local, returned>>
    /\ UNCHANGED <<all_commands, request_vars, beacon_vars, thread_vars>>
    /\ UNCHANGED <<number_of_timeouts, cmdevents, frame_vars, clock_vars>>

\* ws_receiver, line 2297: the listener sets ws_event and goes back to the
\* test of line 2151
ws_closed_set(l) ==
    /\ UNCHANGED <<late_vars, status>>
    /\ lpc[l] = "closed"
    /\ ws_event' = TRUE
    /\ lpc' = [lpc EXCEPT ![l] = "recv"]
    /\ UNCHANGED <<sim, ws, req_number, _requests, all_datarefs, _last_updated,
                   indices, indices_history, _monitored, simulator_variable_to_monitor,
                   _dataref_by_id, wire, events, last_op, hist, pc, local, returned>>
    /\ UNCHANGED <<all_commands, request_vars, beacon_vars, thread_vars>>
    /\ UNCHANGED <<number_of_timeouts, cmdevents, frame_vars, clock_vars>>

\* ws_receiver, line 2151: the listener finds ws_event set and leaves the loop
ws_leave(l) ==
    /\ UNCHANGED <<late_vars, status>>
    /\ lpc[l] = "recv" /\ ws_event
    /\ lpc' = [lpc EXCEPT ![l] = "exit"]
    /\ UNCHANGED <<sim, ws, ws_event, req_number, _requests, all_datarefs, _last_updated,
                   indices, indices_history, _monitored, simulator_variable_to_monitor,
                   _dataref_by_id, wire, events, last_op, hist, pc, local, returned>>
    /\ UNCHANGED <<all_commands, request_vars, beacon_vars, thread_vars>>
    /\ UNCHANGED <<number_of_timeouts, cmdevents, frame_vars, clock_vars>>

\* ws_receiver, lines 2302-2308: out of the loop, the listener closes the
\* socket self.ws holds, if any, and ends
ws_exit(l) ==
    /\ status' = 2
    /\ UNCHANGED late_vars
    /\ lpc[l] = "exit"
    /\ ws' = FALSE
    /\ wire' = [i \in Ids |-> "none"]
    /\ lpc' = [lpc EXCEPT ![l] = "off"]
    /\ ws_thread' = ListenerAlive([lpc EXCEPT ![l] = "off"])
    /\ last_op' = Op("ws_receiver_exit", FALSE)
    /\ UNCHANGED <<sim, ws_event, req_number, _requests, all_datarefs, _last_updated,
                   indices, indices_history, _monitored, simulator_variable_to_monitor,
                   _dataref_by_id, events, hist, pc, local, returned>>
    /\ UNCHANGED <<all_commands, request_vars, beacon_vars, should_not_connect,
                   connect_thread, term>>
    /\ UNCHANGED <<number_of_timeouts, cmdevents, frame_vars, clock_vars>>

\* XPlane.stop, lines 2335-2350: ws_event is set if it was clear; the join of
\* the listener returns after RECEIVE_TIMEOUT at the latest, with the
\* listener ended or still in ws.receive
stop ==
    /\ UNCHANGED status
    /\ ws_event' = TRUE
    /\ last_op' = Op("stop", FALSE)
    /\ UNCHANGED <<sim, ws, req_number, _requests, all_datarefs, _last_updated,
                   indices, indices_history, _monitored, simulator_variable_to_monitor,
                   _dataref_by_id, wire, events, hist, pc, local, returned>>
    /\ UNCHANGED <<all_commands, request_vars, beacon_vars, thread_vars>>
    /\ UNCHANGED more_vars

\* XPlane.start, lines 2310-2333, called by the application: nothing when not
\* connected; else a listener is started if ws_event is set, the cache is
\* reloaded, the ids rebuilt and the monitoring cleaned as in connect_loop
start(t, ok) ==
    /\ status' = IF ws /\ ws_event THEN 3 ELSE status
    /\ UNCHANGED late_vars
    /\ UNCHANGED <<sim, wire, events, hist, pc, local, returned, _monitored>>
    /\ UNCHANGED <<request_vars, beacon_vars, should_not_connect, connect_thread, term>>
    /\ UNCHANGED <<number_of_timeouts, cmdevents, frame_vars, clock_vars>>
    /\ IF ~ws
       THEN /\ last_op' = Op("start", FALSE)
            /\ UNCHANGED <<ws, ws_event, req_number, _requests, all_datarefs, _last_updated,
                           indices, indices_history, simulator_variable_to_monitor,
                           _dataref_by_id, all_commands, ws_thread, lpc>>
       ELSE LET c == reload_caches(Cached, t, ok)
                entries == \E i \in Ids : _dataref_by_id[i] # NoEntry
            IN  /\ ws_event => \E l \in Listeners : lpc[l] = "off"
                /\ lpc' = IF ws_event THEN StartListener(lpc) ELSE lpc
                /\ ws_event' = FALSE
                /\ ws_thread' = (ws_event \/ ws_thread)
                /\ UNCHANGED ws
                /\ all_datarefs' = c.all
                /\ all_commands' = c.cmd
                /\ _last_updated' = c.last
                /\ indices' = c.ind
                /\ indices_history' = c.his
                /\ IF rebuild_dataref_ids_raises(c)
                   THEN /\ last_op' = Op("start", TRUE)
                        /\ UNCHANGED <<req_number, _requests, simulator_variable_to_monitor,
                                       _dataref_by_id>>
                   ELSE /\ entries => req_number < MaxReq
                        /\ last_op' = Op("start", FALSE)
                        /\ req_number' = IF entries THEN req_number + 1 ELSE req_number
                        /\ _requests' = send_requests(entries, req_number, _requests)
                        /\ _dataref_by_id' = [i \in Ids |-> NoEntry]
                        /\ simulator_variable_to_monitor' = [d \in Variables |-> 0]

LoopNext ==
    \/ \E p \in TermPackets : beacon_connect_loop(p)
    \/ \E avail \in BOOLEAN : connect_loop(avail, None, TRUE)
    \/ stop
    \/ start(None, TRUE)
    \/ \E l \in Listeners :
         \/ ws_receive(l)
         \/ ws_decode(l)
         \/ ws_closed(l)
         \/ ws_closed_set(l)
         \/ ws_leave(l)
         \/ ws_exit(l)

LoopSpec == Init /\ [][LoopNext]_vars

\* C27: at most one WebSocket receive loop runs at any time (with at most
\* one beacon loop and one connection monitor), whatever the interleaving of
\* the monitor, the listener and connection closures.
C27_OneListener == Cardinality({l \in Listeners : lpc[l] # "off"}) <= 1

\* C26: within one session the frames are decoded in arrival order; the
\* events and request outcomes of a frame come before those of every frame
\* that arrived after it.
C26_ArrivalOrder ==
    \A i, j \in 1 .. Len(emitted) : i < j => emitted[i] < emitted[j]

\* C22: after the WebSocket closed, the monitor reconnects only when the
\* first precondition of its walk holds, the beacon being visible.
C22_ReconnectNeedsBeacon ==
    [][(last_op.op = "closed" /\ ~ws /\ ws') => beacon_connected(beacon_data)]_vars

\* C23: at the fifth timeout in a row the monitor ends the listener and
\* discards the endpoint it learned, so that the beacon is looked for again.
C23_FifthTimeoutRediscovers ==
    [][(number_of_timeouts' = MAX_TIMEOUT_COUNT /\ number_of_timeouts # MAX_TIMEOUT_COUNT)
           => (ws_event' /\ beacon_data' = NoBeacon)]_vars

\* ------------------------------------------------------------------------
\* Monitoring requests made with and without a connection
\* ------------------------------------------------------------------------
\* A connection test that always answers yes
connected_always == TRUE

\* XPlaneWebSocket.connected: self.ws is not None
connected == ws

\* The payload of register_bulk_command_is_active_event: one entry per command
CommandPayload(type, ids) ==
    [none |-> FALSE, keys |-> 2, type |-> type, ident |-> NoIdent, commands |-> ids,
     req_id |-> 0]

\* XPlane.add_simulator_events_to_monitor(simulator_events): the commands not
\* yet monitored are subscribed in one message (those the simulator knows) and
\* join cmdevents
add_simulator_events_to_monitor(simulator_events) ==
    /\ UNCHANGED <<late_vars, status>>
    /\ UNCHANGED <<number_of_timeouts, lpc, frame_vars, clock_vars>>
    /\ UNCHANGED <<all_commands, received, beacon_vars, thread_vars>>
    /\ UNCHANGED <<sim, ws, ws_event, all_datarefs, _last_updated, indices,
                   indices_history, _monitored, simulator_variable_to_monitor,
                   _dataref_by_id, wire, events, hist, pc, local, returned>>
    /\ last_op' = Op("add_events", FALSE)
    /\ IF ~connected \/ simulator_events = {}
       THEN UNCHANGED <<req_number, _requests, sent, ret, cmdevents>>
       ELSE LET paths == simulator_events \ cmdevents
                cmds == {all_commands[p] : p \in paths} \ {NoIdent}
            IN  /\ cmdevents' = cmdevents \cup paths
                /\ IF cmds # {}
                   THEN send_body(CommandPayload("command_subscribe_is_active", cmds))
                   ELSE ret' = -1 /\ UNCHANGED <<req_number, _requests, sent>>

MonitorNext ==
    \/ \E vs \in Batches(RefVariables) : Add(vs)
    \/ \E simulator_events \in SUBSET CommandNames :
           add_simulator_events_to_monitor(simulator_events)
    \/ ConnectionClosed(Generation1)

MonitorSpec == SessionInit /\ [][MonitorNext]_vars

\* What a monitoring request may change: the messages, the counts, the index
\* sets, the table of subscribed datarefs, the monitored commands
monitoring_state ==
    <<req_number, _requests, wire, sent, _monitored, simulator_variable_to_monitor,
      indices, indices_history, _dataref_by_id, cmdevents>>

\* C24: add_simulator_variables_to_monitor and add_simulator_events_to_monitor
\* called while the WebSocket is not connected send nothing, queue nothing and
\* leave the monitor counts, the index sets, the table of subscribed datarefs
\* and the set of monitored commands as they were.
C24_AddWhileDisconnectedIsNoop ==
    [][(/\ ~ws
        /\ \/ \E vs \in Batches(RefVariables) : add_simulator_variables_to_monitor(vs)
           \/ \E simulator_events \in SUBSET CommandNames :
                  add_simulator_events_to_monitor(simulator_events))
       => UNCHANGED monitoring_state]_vars

\* C24 witness: an add call has returned while not connected, with datarefs
\* and commands monitored before the connection was lost
C24_Witness ==
    /\ ~ws
    /\ last_op.op \in {"add", "add_events"}
    /\ cmdevents # {}
    /\ \E d \in RefVariables : _monitored[d] > 0

\* ------------------------------------------------------------------------
\* The message of one add or remove call
\* ------------------------------------------------------------------------
\* The identifiers of the variables whose monitor count went from a to b in
\* this step
Went(a, b) ==
    {ident(d) : d \in {v \in Variables : _monitored[v] = a /\ _monitored'[v] = b}} \ {NoIdent}

\* C25: each add or remove call sends at most one subscribe / unsubscribe
\* message, and that message lists exactly the identifiers whose monitor count
\* went 0 to 1 (add) or 1 to 0 (remove) in that call, an array requested by
\* several of its indices being one entry with all these indices.
C25_OneMessagePerCall ==
    [][/\ (\E vs \in Batches(ArrayVariables) : Add(vs))
          => /\ req_number' = IF Went(0, 1) # {} THEN req_number + 1 ELSE req_number
             /\ \A i \in Ids : wire'[i] = IF i \in Went(0, 1) THEN "sub" ELSE wire[i]
       /\ (\E vs \in Batches(ArrayVariables) : Remove(vs))
          => /\ req_number' = IF Went(1, 0) # {} THEN req_number + 1 ELSE req_number
             /\ \A i \in Ids : wire'[i] = IF i \in Went(1, 0) THEN "unsub" ELSE wire[i]]_vars

\* ------------------------------------------------------------------------
\* send() while the listener loses the connection
\* ------------------------------------------------------------------------
CloseNext ==
    \/ SendNext
    \/ ConnectionClosed(Generation1)

CloseSpec == SessionInit /\ [][CloseNext]_vars

\* C28: no operation that sends over the WebSocket raises because of an
\* ordinary network condition, the connection being closed between the
\* connected test and the transmission included: the failure shows only as a
\* return of -1 or as a change of the connection state.
C28_SendNeverRaises == ~(last_op.op = "send" /\ last_op.raised)

\* ------------------------------------------------------------------------
\* The throttle of reload_caches against the simulator's clock
\* ------------------------------------------------------------------------
MaxTime == 20      \* cap on the simulator time that passes in one behaviour

\* Simulator time passes: the running time of the flight and the time since
\* the previous reload both advance
Tick(d) ==
    /\ UNCHANGED <<late_vars, status>>
    /\ uptime + d <= MaxTime /\ elapsed + d <= MaxTime
    /\ uptime' = uptime + d
    /\ elapsed' = elapsed + d
    /\ UNCHANGED <<sim, ws, ws_event, req_number, _requests, all_datarefs, _last_updated,
                   indices, indices_history, _monitored, simulator_variable_to_monitor,
                   _dataref_by_id, wire, events, last_op, hist, pc, local, returned>>
    /\ UNCHANGED <<all_commands, request_vars, beacon_vars, thread_vars>>
    /\ UNCHANGED <<number_of_timeouts, lpc, cmdevents, frame_vars>>

\* The flight is reset: sim/time/total_flight_time_sec restarts from 0
FlightReset ==
    /\ UNCHANGED <<late_vars, status>>
    /\ uptime > 0
    /\ uptime' = 0
    /\ UNCHANGED <<sim, ws, ws_event, req_number, _requests, all_datarefs, _last_updated,
                   indices, indices_history, _monitored, simulator_variable_to_monitor,
                   _dataref_by_id, wire, events, last_op, hist, pc, local, returned>>
    /\ UNCHANGED <<all_commands, request_vars, beacon_vars, thread_vars>>
    /\ UNCHANGED <<number_of_timeouts, lpc, cmdevents, frame_vars, elapsed>>

\* One call of XPlaneREST.reload_caches(); avail: the running time can be read
reload_caches_call(avail) ==
    LET t == IF avail THEN uptime ELSE None
        c == reload_caches(Cached, t, TRUE)
    IN  /\ all_datarefs' = c.all
        /\ all_commands' = c.cmd
        /\ _last_updated' = c.last
        /\ indices' = c.ind
        /\ indices_history' = c.his
        /\ elapsed' = IF reload_skipped(Cached, t) THEN elapsed ELSE 0
        /\ last_op' = Op(IF reload_skipped(Cached, t) THEN "reload_skipped" ELSE "reload_caches",
                         FALSE)
        /\ UNCHANGED <<sim, ws, ws_event, req_number, _requests, _monitored,
                       simulator_variable_to_monitor, _dataref_by_id, wire, events, hist,
                       pc, local, returned>>
        /\ UNCHANGED <<request_vars, beacon_vars, thread_vars>>
        /\ UNCHANGED <<number_of_timeouts, lpc, cmdevents, frame_vars, uptime, late_vars,
                       status>>

ThrottleNext ==
    \/ \E d \in {1, MINTIME_BETWEEN_RELOAD \div 2} : Tick(d)
    \/ FlightReset
    \/ \E avail \in BOOLEAN : reload_caches_call(avail)

ThrottleSpec == SessionInit /\ [][ThrottleNext]_vars

\* C29: reload_caches does not reload when less than 10 seconds of simulator
\* time have passed since the previous reload and reloads when at least 10
\* seconds have passed, whatever the readings of the simulator time are, a
\* time that restarts from a lower value or cannot be read included.
C29_ReloadIffIntervalElapsed ==
    [][(\E avail \in BOOLEAN : reload_caches_call(avail))
       => (last_op'.op = "reload_caches" <=> elapsed >= MINTIME_BETWEEN_RELOAD)]_vars

\* ------------------------------------------------------------------------
\* A new aircraft is loaded while connected
\* ------------------------------------------------------------------------
\* The simulator loads another aircraft and the value of
\* sim/aircraft/view/acf_relative_path changes: the simulator's metadata is
\* now gen. The listeners of the variable run: XPlane.simulator_variable_changed
\* is "pass", Simulation.simulator_variable_changed logs or returns.
simulator_variable_changed(gen) ==
    /\ UNCHANGED status
    /\ ws /\ gen # sim
    /\ sim' = gen
    /\ last_op' = Op("simulator_variable_changed", FALSE)
    /\ UNCHANGED <<ws, ws_event, req_number, _requests, all_datarefs, _last_updated,
                   indices, indices_history, _monitored, simulator_variable_to_monitor,
                   _dataref_by_id, wire, events, hist, pc, local, returned>>
    /\ UNCHANGED <<all_commands, request_vars, beacon_vars, thread_vars, more_vars>>

AircraftNext ==
    \/ \E gen \in {Generation1, Generation2} : simulator_variable_changed(gen)
    \/ \E vs \in Batches(RefVariables) : Add(vs)
    \/ \E vs \in Batches(RefVariables) : Remove(vs)

AircraftSpec == SessionInit /\ [][AircraftNext]_vars

\* C30: whenever the aircraft-identifying variable changes value while
\* connected, the metadata cache is reloaded, the throttle bypassed, before any
\* further identifier lookup is served: every lookup of an add or remove call
\* reads a cache of the simulator's current metadata.
C30_ReloadOnAircraftChange ==
    [][(/\ ws
        /\ \/ \E vs \in Batches(RefVariables) : Add(vs)
           \/ \E vs \in Batches(RefVariables) : Remove(vs))
       => all_datarefs = sim]_vars

\* ------------------------------------------------------------------------
\* The connection status (xplane.py 1584-1589)
\* ------------------------------------------------------------------------
\* A receive loop is running
receiver_running == \E l \in Listeners : lpc[l] # "off"

\* C32: the connection status has its documented meaning in every reachable
\* state: 0 only while the connection monitor is not running, 1 only while
\* the monitor runs and the WebSocket is not connected, 2 only while the
\* WebSocket is connected and the receive loop is not running, 3 and 4 only
\* while the WebSocket is connected and the receive loop is running, 4 only
\* after a frame was received.
C32_StatusMeaning ==
    /\ status = 0 => ~connect_thread
    /\ status = 1 => connect_thread /\ ~ws
    /\ status = 2 => ws /\ ~receiver_running
    /\ status \in {3, 4} => ws /\ receiver_running
    /\ status = 4 => arrived > 0

\* C33: the WebSocket is never open before the metadata is loaded: in every
\* reachable state where ws is not None the dataref cache exists and has
\* data, also when the load of the cache fails right after the handshake.
C33_MetadataBeforeWebSocket == ws => has_data

\* ------------------------------------------------------------------------
\* Cache.load and the two lookups
\* ------------------------------------------------------------------------
MaxRecords == 3    \* records in one answer of the simulator

\* The records {id, name, ...} of an answer: names and ids may repeat
RecordNames == {"n1", "n2", "n3"}
RecordIds == {1, 2, 3}
Records == [name : RecordNames, id : RecordIds]
RecordLists == UNION {SeqsOf(Records, n) : n \in 0 .. MaxRecords}

\* No descriptor (None)
NoMeta == [name |-> "", ident |-> NoIdent, obj |-> 0]

\* APIMeta.new(**c) for the k-th record: a new object with the name and the id
APIMeta(data, k) == [name |-> data[k].name, ident |-> data[k].id, obj |-> k]

\* A dict that keeps one descriptor, the first, under every key
first_meta(data, keys, key_of) == [x \in keys |-> APIMeta(data, 1)]

\* {key(m): m for m in metas}: the last descriptor with a key stays under it
dict_of(data, keys, key_of) ==
    [x \in keys |->
        APIMeta(data, CHOOSE k \in 1 .. Len(data) :
                        /\ data[k][key_of] = x
                        /\ \A j \in (k + 1) .. Len(data) : data[j][key_of] # x)]

\* Cache.get_by_name, Cache.get_by_id: dict.get
dict_get(d, key) == IF key \in DOMAIN d THEN d[key] ELSE NoMeta

\* Cache.__init__: a new, empty Cache (reload_caches, lines 1191 and 1194)
Cache_init ==
    /\ _raw' = <<>>
    /\ _by_name' = <<>>
    /\ _by_ids' = <<>>
    /\ last_op' = Op("Cache", FALSE)
    /\ UNCHANGED <<sim, ws, ws_event, req_number, _requests, all_datarefs, _last_updated,
                   indices, indices_history, _monitored, simulator_variable_to_monitor,
                   _dataref_by_id, wire, events, hist, pc, local, returned>>
    /\ UNCHANGED <<all_commands, request_vars, beacon_vars, thread_vars, status>>
    /\ UNCHANGED <<number_of_timeouts, lpc, cmdevents, frame_vars, clock_vars,
                   endpoint_vars, udp_vars, is_on>>

\* Cache.load of the new Cache; ok: the GET answered 200 with the records data
load(data, ok) ==
    /\ _raw = <<>>
    /\ IF ok
       THEN /\ _raw' = data
            /\ _by_name' = dict_of(data, {data[k].name : k \in 1 .. Len(data)}, "name")
            /\ _by_ids' = dict_of(data, {data[k].id : k \in 1 .. Len(data)}, "id")
       ELSE UNCHANGED cache_vars
    /\ last_op' = Op("load", FALSE)
    /\ UNCHANGED <<sim, ws, ws_event, req_number, _requests, all_datarefs, _last_updated,
                   indices, indices_history, _monitored, simulator_variable_to_monitor,
                   _dataref_by_id, wire, events, hist, pc, local, returned>>
    /\ UNCHANGED <<all_commands, request_vars, beacon_vars, thread_vars, status>>
    /\ UNCHANGED <<number_of_timeouts, lpc, cmdevents, frame_vars, clock_vars,
                   endpoint_vars, udp_vars, is_on>>

CacheNext ==
    \/ \E data \in RecordLists, ok \in BOOLEAN : load(data, ok)
    \/ Cache_init

CacheSpec == SessionInit /\ [][CacheNext]_vars

\* The records have distinct names and distinct ids
DistinctRecords(data) ==
    \A i, j \in 1 .. Len(data) :
        i # j => data[i].name # data[j].name /\ data[i].id # data[j].id

\* C31: after a successful Cache.load of records with distinct names and
\* distinct ids, get_by_name(name) and get_by_id(id) of every record return
\* the same descriptor, whose ident is the id of the record; a name or an id
\* that is not in the list gives None.
C31_LookupsAgree ==
    DistinctRecords(_raw)
    => /\ \A k \in 1 .. Len(_raw) :
            /\ dict_get(_by_name, _raw[k].name) = dict_get(_by_ids, _raw[k].id)
            /\ dict_get(_by_name, _raw[k].name) # NoMeta
            /\ dict_get(_by_name, _raw[k].name).ident = _raw[k].id
       /\ \A n \in RecordNames :
            (\A k \in 1 .. Len(_raw) : _raw[k].name # n) => dict_get(_by_name, n) = NoMeta
       /\ \A i \in RecordIds :
            (\A k \in 1 .. Len(_raw) : _raw[k].id # i) => dict_get(_by_ids, i) = NoMeta

\* C31 witness: a list of MaxRecords records with distinct names and ids was
\* loaded
C31_Witness ==
    /\ Len(_raw) = MaxRecords /\ DistinctRecords(_raw)
    /\ last_op = Op("load", FALSE)

\* ------------------------------------------------------------------------
\* The endpoint the beacon gives the REST and WebSocket API
\* ------------------------------------------------------------------------
\* Beacons of X-Plane 12.0.9, 12.1.1, 12.1.3 and 12.1.4, from this machine
\* and from another one
EndpointVersions == {120900, 121100, 121300, 121400}
EndpointPackets ==
    {Timeout} \cup
    {Packet(FALSE, TRUE, 1, mi, 1, v, ip) : mi \in {2, 3}, v \in EndpointVersions, ip \in Hosts}

EndpointNext ==
    \/ \E p \in EndpointPackets : beacon_connect_loop(p)
    \/ beacon_connect_loop_exit
    \/ beacon_disconnect
    \/ beacon_disconnect_return
    \/ beacon_connect

EndpointSpec == SessionInit /\ [][EndpointNext]_vars

\* C34: on a beacon callback with connected true the endpoint is
\* 127.0.0.1:8086 when the beacon comes from a local address and
\* <beacon IP>:8080 otherwise; the API version is /v2 for a version number of
\* 121400 and more, /v1 from 121100 to 121399, and stays below 121100; a
\* callback with connected false leaves host, port and API version as they
\* were.
C34_EndpointFromBeacon ==
    [][\A p \in EndpointPackets :
         beacon_connect_loop(p)
         => /\ beacon_calls' = <<TRUE>>
               => /\ IF beacon_data'.IP \in list_my_ips
                     THEN host' = "127.0.0.1" /\ port' = 8086
                     ELSE host' = beacon_data'.IP /\ port' = 8080
                  /\ beacon_data'.XPlaneVersion >= 121400 => _api_version' = "/v2"
                  /\ (beacon_data'.XPlaneVersion >= 121100 /\ beacon_data'.XPlaneVersion < 121400)
                     => _api_version' = "/v1"
                  /\ beacon_data'.XPlaneVersion < 121100 => _api_version' = _api_version
            /\ beacon_calls' = <<FALSE>> => UNCHANGED endpoint_vars]_vars

\* C34 witness: a beacon of X-Plane 12.1.3 on another machine was found, and
\* the endpoint is that machine, port 8080, version /v1
C34_Witness ==
    /\ beacon_calls = <<TRUE>> /\ beacon_data = BeaconData("10.0.0.2", 121300)
    /\ host = "10.0.0.2" /\ port = 8080 /\ _api_version = "/v1"

\* ------------------------------------------------------------------------
\* A BeginEndCommand executed over the WebSocket
\* ------------------------------------------------------------------------
\* BeginEndCommand.ws_execute for the command "c": "not self.is_valid" tests
\* the bound method and is never true; is_on is toggled, then
\* set_command_is_active_without_duration(path, is_on) sends if it can
ws_execute ==
    /\ is_on' = ~is_on
    /\ LET cmdref == get_command_meta_by_name("c") IN
       IF cmdref # NoIdent
       THEN send_body(Payload("command_set_is_active", cmdref, ~is_on, None))
       ELSE ret' = -1 /\ UNCHANGED <<req_number, _requests, sent>>
    /\ last_op' = Op("ws_execute", FALSE)
    /\ UNCHANGED <<sim, ws, ws_event, all_datarefs, _last_updated, indices,
                   indices_history, _monitored, simulator_variable_to_monitor,
                   _dataref_by_id, wire, events, hist, pc, local, returned>>
    /\ UNCHANGED <<all_commands, received, beacon_vars, thread_vars, status>>
    /\ UNCHANGED <<number_of_timeouts, lpc, cmdevents, frame_vars, clock_vars,
                   endpoint_vars, udp_vars, cache_vars>>

CommandNext ==
    \/ ws_execute
    \/ ConnectionClosed(Generation1)
    \/ \E avail, ok \in BOOLEAN : connect_loop(avail, None, ok)

CommandSpec == SessionInit /\ [][CommandNext]_vars

\* C35: the command_set_is_active messages transmitted for one
\* BeginEndCommand alternate is_active true, false, true, ..., the first being
\* true, also when some executions send nothing (not connected, command
\* unknown).
C35_BeginEndAlternate ==
    [][(ws_execute /\ req_number' # req_number)
       => sent'.is_active = (IF sent = NonePayload THEN TRUE ELSE ~sent.is_active)]_vars

\* ------------------------------------------------------------------------
\* The UDP variant: the table of the datarefs requested by RREF
\* ------------------------------------------------------------------------
MAX_DREF_COUNT == 110
MaxExtra == 3      \* cap on the indices given beyond MAX_DREF_COUNT

\* XPlaneUDP.connected: "IP" in self.beacon_data.keys()
udp_connected == beacon_data # NoBeacon

\* path in self.datarefs.values(), and the key of its first entry
in_datarefs(path) == \E i \in DOMAIN datarefs : datarefs[i] = path
index_of(path) ==
    CHOOSE i \in DOMAIN datarefs :
        /\ datarefs[i] = path
        /\ \A k \in DOMAIN datarefs : datarefs[k] = path => i <= k

\* The test of line 1009 on len(self.datarefs)
too_many(n) == n > MAX_DREF_COUNT

\* XPlaneUDP.add_dataref_to_monitor(path, freq) for a numeric simulator
\* dataref (paths are numbered); ret is 1 for True and 0 for False
add_dataref_to_monitor(path, freq) ==
    /\ datarefidx < MAX_DREF_COUNT + MaxExtra
    /\ IF ~udp_connected
       THEN ret' = 0 /\ UNCHANGED udp_vars
       ELSE IF in_datarefs(path)
       THEN /\ datarefs' = IF freq = 0
                           THEN [i \in DOMAIN datarefs \ {index_of(path)} |-> datarefs[i]]
                           ELSE datarefs
            /\ datarefidx' = datarefidx
            /\ message' = RREF(freq, index_of(path), path)
            /\ ret' = 1
       ELSE IF freq # 0 /\ too_many(Cardinality(DOMAIN datarefs))
       THEN ret' = 0 /\ UNCHANGED udp_vars
       ELSE /\ datarefs' = [i \in DOMAIN datarefs \cup {datarefidx} |->
                               IF i = datarefidx THEN path ELSE datarefs[i]]
            /\ datarefidx' = datarefidx + 1
            /\ message' = RREF(freq, datarefidx, path)
            /\ ret' = 1
    /\ last_op' = Op("add_dataref_to_monitor", FALSE)
    /\ UNCHANGED <<sim, ws, ws_event, all_datarefs, _last_updated, indices,
                   indices_history, _monitored, simulator_variable_to_monitor,
                   _dataref_by_id, wire, events, hist, pc, local, returned>>
    /\ UNCHANGED <<req_number, _requests, all_commands, sent, received,
                   beacon_vars, thread_vars, status>>
    /\ UNCHANGED <<number_of_timeouts, lpc, cmdevents, frame_vars, clock_vars,
                   endpoint_vars, cache_vars, is_on>>

\* XPlaneUDP.remove_dataref_from_monitor(path)
remove_dataref_from_monitor(path) == add_dataref_to_monitor(path, 0)

\* The paths of the calls: one of the table's first entries and new ones
UdpPaths == {1} \cup {MAX_DREF_COUNT + k : k \in 0 .. MaxExtra - 1}

\* A connected XPlaneUDP after MAX_DREF_COUNT - 1 datarefs were requested
UdpInit ==
    /\ sim = Generation1
    /\ ws = TRUE
    /\ ws_event = FALSE
    /\ req_number = 0
    /\ _requests = [r \in 1 .. MaxReq |-> "none"]
    /\ all_datarefs = Generation1
    /\ _last_updated = 5
    /\ indices = [n \in BaseNames |-> <<>>]
    /\ indices_history = [n \in BaseNames |-> <<>>]
    /\ _monitored = [d \in Variables |-> 0]
    /\ simulator_variable_to_monitor = [d \in Variables |-> 0]
    /\ _dataref_by_id = [i \in Ids |-> NoEntry]
    /\ wire = [i \in Ids |-> "none"]
    /\ events = <<>>
    /\ last_op = Op("start", FALSE)
    /\ hist = [adds |-> 0, removes |-> 0, net |-> 0, subs |-> 0, unsubs |-> 0]
    /\ pc = [t \in Threads |-> "idle"]
    /\ local = [t \in Threads |-> 0]
    /\ returned = <<>>
    /\ all_commands = SimCommands
    /\ sent = NonePayload
    /\ ret = NoReturn
    /\ received = NoMessage
    /\ should_not_connect = "clear"
    /\ connect_thread = TRUE
    /\ ws_thread = TRUE
    /\ beacon_data = BeaconData("10.0.0.2", 121300)
    /\ beacon_calls = <<>>
    /\ packet = Timeout
    /\ beacon_event = "clear"
    /\ beacon_thread = TRUE
    /\ term = "run"
    /\ number_of_timeouts = 0
    /\ lpc = OneListener
    /\ held = [l \in Listeners |-> 0]
    /\ arrived = 0
    /\ emitted = <<>>
    /\ cmdevents = {}
    /\ uptime = 5
    /\ elapsed = 0
    /\ status = 3
    /\ host = "127.0.0.1"
    /\ port = 8086
    /\ _api_version = "/v1"
    /\ is_on = FALSE
    /\ datarefs = [i \in 0 .. MAX_DREF_COUNT - 2 |-> i + 1]
    /\ datarefidx = MAX_DREF_COUNT - 1
    /\ message = NoRREF
    /\ _by_name = <<>>
    /\ _by_ids = <<>>
    /\ _raw = <<>>

UdpNext ==
    \/ \E path \in UdpPaths : add_dataref_to_monitor(path, 1)
    \/ \E path \in UdpPaths : remove_dataref_from_monitor(path)

UdpSpec == UdpInit /\ [][UdpNext]_vars

\* C36: in the UDP variant the datarefs table never holds more than
\* MAX_DREF_COUNT entries, whatever calls of add_dataref_to_monitor and
\* remove_dataref_from_monitor were made.
C36_TableWithinLimit == Cardinality(DOMAIN datarefs) <= MAX_DREF_COUNT

\* C37: in the UDP variant remove_dataref_from_monitor(path) for a path that
\* is not in the datarefs table leaves the table and the next-index counter
\* unchanged.
C37_RemoveAbsentIsNoop ==
    [][\A path \in UdpPaths :
          (remove_dataref_from_monitor(path) /\ ~in_datarefs(path))
              => UNCHANGED <<datarefs, datarefidx>>]_vars

\* ------------------------------------------------------------------------
\* The monitor restores the connection
\* ------------------------------------------------------------------------
\* The monitor thread keeps running and the simulator API is reachable
\* again: a turn of connect_loop that finds the API is taken; the listener
\* threads run on: a listener that saw the socket closed or its event set
\* goes on to its next statement
RestoreSpec ==
    /\ LoopSpec
    /\ WF_vars(connect_loop(TRUE, None, TRUE))
    /\ \A l \in Listeners :
         /\ WF_vars(ws_closed(l))
         /\ WF_vars(ws_closed_set(l))
         /\ WF_vars(ws_leave(l))
         /\ WF_vars(ws_exit(l))

\* C38: while the connection monitor runs and is not asked to stop, a
\* WebSocket that failed, dropped or disappeared is eventually open again
\* once the simulator API is reachable.
C38_ConnectionRestored ==
    (~ws /\ connect_thread /\ should_not_connect = "clear") ~> (ws /\ receiver_running)

\* C38 witness: a socket is open and one listener reads it, after frames
\* were received on an earlier socket: the status is back to 3, which a new
\* start of the listener gives
C38_Witness ==
    /\ ws /\ receiver_running /\ connect_thread
    /\ arrived > 0 /\ status = 3 /\ number_of_timeouts = 0
    /\ lpc[1] = "recv" /\ \A l \in Listeners \ {1} : lpc[l] = "off"

\* ------------------------------------------------------------------------
\* Array elements subscribed in any order
\* ------------------------------------------------------------------------
\* The value element i of the array "a" has in the simulator
element_value(i) == 100 + 10 * (i + 1)

\* The indices of a list in ascending order
RECURSIVE Ascending(_)
Ascending(set) ==
    IF set = {} THEN <<>>
    ELSE LET lo == CHOOSE x \in set : \A y \in set : x <= y
         IN  <<lo>> \o Ascending(set \ {lo})

\* The Web API note quoted in append_index: the values of the subscribed
\* indexes are sent in index order, whatever the order of the subscriptions
simulator_push(q) ==
    LET asc == Ascending({q[k] : k \in 1 .. Len(q)})
    IN  [list |-> TRUE, v |-> [k \in 1 .. Len(asc) |-> element_value(asc[k])]]

\* The simulator pushes the elements of "a" it was asked for
ReceivePush ==
    /\ wire[ident(A)] = "sub" /\ Len(indices["a"]) > 0
    /\ Receive(<<[id |-> ident(A), value |-> simulator_push(indices["a"])]>>)

OrderNext ==
    \/ \E vs \in Batches(ElementVariables) : Add(vs)
    \/ \E vs \in Batches(ElementVariables) : Remove(vs)
    \/ ReceivePush

OrderSpec == SessionInit /\ [][OrderNext]_vars

\* C39: the simulator pushing the subscribed elements in ascending index
\* order, every event a[i] the dispatcher emits carries the simulator's value
\* of element i, whatever the order in which the indices were subscribed.
C39_EventCarriesElement ==
    [][ReceivePush
       => \A k \in 1 .. Len(events') :
            events'[k].value = Number(element_value(events'[k].dataref.index))]_vars

\* ------------------------------------------------------------------------
\* A reload of the cache the simulator does not answer
\* ------------------------------------------------------------------------
\* One call of XPlaneREST.reload_caches(); ok: the GET of the lists answers
\* 200. The running time is read as it is in the simulator.
reload_caches_load(ok) ==
    LET c == reload_caches(Cached, uptime, ok)
    IN  /\ all_datarefs' = c.all
        /\ all_commands' = c.cmd
        /\ _last_updated' = c.last
        /\ indices' = c.ind
        /\ indices_history' = c.his
        /\ elapsed' = IF reload_skipped(Cached, uptime) THEN elapsed ELSE 0
        /\ last_op' = Op(IF reload_skipped(Cached, uptime) THEN "reload_skipped"
                         ELSE IF ok THEN "reload_caches" ELSE "reload_failed",
                         FALSE)
        /\ UNCHANGED <<sim, ws, ws_event, req_number, _requests, _monitored,
                       simulator_variable_to_monitor, _dataref_by_id, wire, events, hist,
                       pc, local, returned>>
        /\ UNCHANGED <<request_vars, beacon_vars, thread_vars>>
        /\ UNCHANGED <<number_of_timeouts, lpc, cmdevents, frame_vars, uptime, late_vars,
                       status>>

FailedLoadNext ==
    \/ \E d \in {1, MINTIME_BETWEEN_RELOAD \div 2} : Tick(d)
    \/ \E ok \in BOOLEAN : reload_caches_load(ok)
    \/ \E gen \in {Generation1, Generation2} : simulator_variable_changed(gen)

FailedLoadSpec == SessionInit /\ [][FailedLoadNext]_vars

\* C40: a reload whose GET of the dataref list answers a status other than
\* 200 discards the cache (has_data is false, no name and no id is found),
\* and every call of reload_caches made less than MINTIME_BETWEEN_RELOAD
\* seconds after the previous attempt, a failed one included, is skipped.
C40_FailedLoadDiscardsAndThrottles ==
    [][(\E ok \in BOOLEAN : reload_caches_load(ok))
       => /\ last_op'.op = "reload_failed"
             => /\ ~has_data'
                /\ \A d \in Variables : ~valid(d)'
                /\ \A i \in Ids : get_by_id(i)' = ""
          /\ elapsed < MINTIME_BETWEEN_RELOAD => last_op'.op = "reload_skipped"]_vars

====
